---- MODULE Spec2Model ----
(***************************************************************************)
(* Model of the Wordstat parser (src/parser.py): the retrying fetch        *)
(* client fetch_top_requests, the two-level run of main(), the minus-word  *)
(* filter, categorize_phrase, and the report that save_results and         *)
(* save_to_csv write; and of the content planner (src/planner.py):         *)
(* cluster_phrases with find_semantic_cluster, and generate_article_title. *)
(*                                                                         *)
(* Texts are sequences of one-character strings, so that lower-casing and  *)
(* substring search are computed and not assumed.                          *)
(***************************************************************************)
EXTENDS Integers, Sequences, FiniteSets, TLC

(***************************************************************************)
(* Bounds of the model.                                                    *)
(***************************************************************************)
\* largest retry budget a standalone invocation of fetch_top_requests gets
MaxRetries == 3
\* largest number of seed queries in queries.txt
MaxSeeds == 2
\* largest number of sightings fed to SeenPhrases on its own
MaxSightings == 3
\* largest number of phrase records given to cluster_phrases
MaxPhrases == 3
\* largest template_index given to generate_article_title
MaxTemplateIndex == 3

(***************************************************************************)
(* Texts.                                                                  *)
(***************************************************************************)
T_rem    == <<"r", "e", "m">>
T_okna   == <<"o", "k">>
T_dver   == <<"d", "v">>
T_plitka == <<"p", "l">>
\* a phrase holding the minus word in upper case, and one in lower case
T_remSPB == <<"r", " ", "S", "P", "B">>
T_remspb == <<"r", " ", "s", "p", "b">>
W_spb    == <<"s", "p", "b">>
W_SPB    == <<"S", "P", "B">>

\* str.lower() on one character of the alphabet used here
LowerChar(c) ==
    CASE c = "A" -> "a"
      [] c = "B" -> "b"
      [] c = "D" -> "d"
      [] c = "E" -> "e"
      [] c = "G" -> "g"
      [] c = "I" -> "i"
      [] c = "K" -> "k"
      [] c = "M" -> "m"
      [] c = "N" -> "n"
      [] c = "O" -> "o"
      [] c = "P" -> "p"
      [] c = "R" -> "r"
      [] c = "S" -> "s"
      [] c = "T" -> "t"
      [] c = "U" -> "u"
      [] c = "V" -> "v"
      [] OTHER -> c

\* str.lower()
Lower(s) == [k \in 1..Len(s) |-> LowerChar(s[k])]

\* Python's  sub in s  on strings
Contains(s, sub) ==
    \E k \in 0..(Len(s) - Len(sub)) : SubSeq(s, k + 1, k + Len(sub)) = sub

\* Python's  x in list
InList(x, list) == \E k \in 1..Len(list) : list[k] = x

(***************************************************************************)
(* Values fetch_top_requests returns.  None is the 'no result' value; a    *)
(* NoTop value is a decoded JSON object without the key topRequests (such  *)
(* as an error object sent with status 200); a Top value carries the       *)
(* phrase list.                                                            *)
(***************************************************************************)
None  == [kind |-> "None", topRequests |-> <<>>]
NoTop == [kind |-> "NoTop", topRequests |-> <<>>]
TopA  == [kind |-> "Top",
          topRequests |-> << [phrase |-> T_remSPB, count |-> 9],
                             [phrase |-> T_okna,   count |-> 7],
                             [phrase |-> T_rem,    count |-> 7] >>]
TopB  == [kind |-> "Top",
          topRequests |-> << [phrase |-> T_okna,   count |-> 7],
                             [phrase |-> T_remspb, count |-> 7],
                             [phrase |-> T_plitka, count |-> 3] >>]
\* the bodies a 200 response may decode to
Responses == {NoTop, TopA, TopB}

\* Python truth value of a result:  if r
Truthy(r) == r.kind # "None"
\* result and 'topRequests' in result
HasTop(r) == Truthy(r) /\ r.kind = "Top"

VARIABLES
    pc,                 \* position of main(), or "standalone"
    config,             \* what .env, config.json and queries.txt hold
    all_results,        \* main: all_results
    all_queries,        \* main: all_queries
    idx,                \* main: i of the running for loop
    recursive_queries,  \* main: recursive_queries
    rounds,             \* number of expansion rounds started
    netCalls,           \* remote calls issued in the whole run
    output,             \* what results.md and results.csv hold
    f,                  \* the frame of the running fetch_top_requests
    timeline,           \* main: the fetches and delay sleeps, in order
    dedup,              \* SeenPhrases fed one sighting at a time
    cls,                \* one call of categorize_phrase
    cl,                 \* one run of cluster_phrases
    ttl                 \* one call of generate_article_title

vars == <<pc, config, all_results, all_queries, idx, recursive_queries,
          rounds, netCalls, output, f, timeline, dedup, cls, cl, ttl>>
\* the state of the components that are exercised on their own
sideVars == <<dedup, cls, cl, ttl>>
mainVars == <<config, all_results, all_queries, idx, recursive_queries,
              rounds, output>>

(***************************************************************************)
(* fetch_top_requests                                                      *)
(***************************************************************************)
DefaultMaxRetries == 3

\* for attempt in range(1, max_retries + 1)
AttemptRange(max_retries) == 1..max_retries

\* attempt < max_retries: a retry is still allowed after this attempt
AttemptsRemain(attempt, max_retries) == attempt < max_retries

\* wait_time = 5 * attempt
WaitTime(attempt) == 5 * attempt

\* kinds of failure of one attempt, as the except clauses sort them:
\*   HTTPError;  URLError that is no HTTPError (no response: refused
\*   connection, or a timeout while connecting, which urllib wraps in
\*   URLError);  any other Exception (a body that is no JSON, or a timeout
\*   while reading the response, which urllib does not wrap)
RemoteError == {"http"}
TransportError == {"url", "connect_timeout"}
UnexpectedError == {"bad_json", "read_timeout"}
Retryable == RemoteError \cup TransportError

IdleFrame == [status |-> "idle", phrase |-> <<>>, max_retries |-> 0,
              attempt |-> 0, calls |-> 0, sleeps |-> <<>>, log |-> <<>>,
              result |-> None]

\* return None
ReturnNone(fr) == [fr EXCEPT !.status = "returned", !.result = None]

\* the for statement taking its next value, or the loop running out and
\* the function reaching its last line
NextIteration(fr) ==
    IF fr.attempt + 1 \in AttemptRange(fr.max_retries)
        THEN [fr EXCEPT !.attempt = @ + 1]
        ELSE ReturnNone(fr)

\* entry of fetch_top_requests up to the first iteration of the for loop
NewFrame(phrase, max_retries) ==
    LET fr == [status |-> "running", phrase |-> phrase,
               max_retries |-> max_retries, attempt |-> 1, calls |-> 0,
               sleeps |-> <<>>, log |-> <<>>, result |-> None]
    IN  IF 1 \in AttemptRange(max_retries) THEN fr ELSE ReturnNone(fr)

\* urlopen(request, timeout=30) is called: one remote call, outcome `what`
Called(fr, what) ==
    [fr EXCEPT !.calls = @ + 1, !.log = Append(@, what)]

\* a retry branch that never looks at the budget
RetryOrGiveUp_Unbounded(fr) ==
    [fr EXCEPT !.sleeps = Append(@, WaitTime(fr.attempt)), !.attempt = @ + 1]

\* the retry branch shared by the HTTPError and URLError clauses
RetryOrGiveUp(fr) ==
    IF AttemptsRemain(fr.attempt, fr.max_retries)
        THEN NextIteration([fr EXCEPT !.sleeps = Append(@, WaitTime(fr.attempt))])
        ELSE ReturnNone(fr)

\* the with block: the body is read and decoded, the result returned
OnSuccess(fr, resp) ==
    [Called(fr, "ok") EXCEPT !.status = "returned", !.result = resp]

\* except urllib.error.HTTPError: e.read().decode('utf-8') runs inside the
\* handler, so an error body that is not UTF-8 raises out of the function
OnHTTPError(fr, bodyDecodes) ==
    IF bodyDecodes
        THEN RetryOrGiveUp(Called(fr, "http"))
        ELSE [Called(fr, "http") EXCEPT !.status = "raised"]

\* except urllib.error.URLError
OnURLError(fr, what) == RetryOrGiveUp(Called(fr, what))

\* an except Exception clause that retries like the URLError clause
OnUnexpected_Retrying(fr, what) ==
    LET g == Called(fr, what)
    IN  IF g.attempt < g.max_retries
            THEN [g EXCEPT !.sleeps = Append(@, 5 * g.attempt), !.attempt = @ + 1]
            ELSE ReturnNone(g)

\* except Exception
OnUnexpected(fr, what) == ReturnNone(Called(fr, what))

AttemptSuccess ==
    /\ f.status = "running"
    /\ \E resp \in Responses : f' = OnSuccess(f, resp)
    /\ netCalls' = netCalls + 1
    /\ UNCHANGED <<sideVars, pc, mainVars, timeline>>

AttemptHTTPError ==
    /\ f.status = "running"
    /\ \E bodyDecodes \in BOOLEAN : f' = OnHTTPError(f, bodyDecodes)
    /\ netCalls' = netCalls + 1
    /\ UNCHANGED <<sideVars, pc, mainVars, timeline>>

AttemptURLError ==
    /\ f.status = "running"
    /\ \E what \in TransportError : f' = OnURLError(f, what)
    /\ netCalls' = netCalls + 1
    /\ UNCHANGED <<sideVars, pc, mainVars, timeline>>

AttemptUnexpected ==
    /\ f.status = "running"
    /\ \E what \in UnexpectedError : f' = OnUnexpected(f, what)
    /\ netCalls' = netCalls + 1
    /\ UNCHANGED <<sideVars, pc, mainVars, timeline>>

FetchStep ==
    \/ AttemptSuccess
    \/ AttemptHTTPError
    \/ AttemptURLError
    \/ AttemptUnexpected

(***************************************************************************)
(* The minus-word filter, the sort and the expansion candidates.           *)
(***************************************************************************)
\* has_minus_words(phrase, minus_words)
has_minus_words(phrase, minus_words) ==
    /\ minus_words # <<>>
    /\ \E k \in 1..Len(minus_words) :
           Contains(Lower(phrase), Lower(minus_words[k]))

\* filter_phrases_by_minus_words(phrases, minus_words)[0]
FilterByMinusWords(phrases, minus_words) ==
    LET keep(p) == ~has_minus_words(p.phrase, minus_words)
    IN  SelectSeq(phrases, keep)

\* a descending sort that puts equal counts in reverse order
RECURSIVE SortByCountDesc_Unstable(_)
SortByCountDesc_Unstable(s) ==
    IF s = <<>> THEN <<>>
    ELSE LET h == Head(s)
             rest == SortByCountDesc_Unstable(Tail(s))
             k == Cardinality({m \in 1..Len(rest) : rest[m].count >= h.count})
         IN  SubSeq(rest, 1, k) \o <<h>> \o SubSeq(rest, k + 1, Len(rest))

\* sorted(s, key=lambda x: x['count'], reverse=True): a stable sort
RECURSIVE SortByCountDesc(_)
SortByCountDesc(s) ==
    IF s = <<>> THEN <<>>
    ELSE LET h == Head(s)
             rest == SortByCountDesc(Tail(s))
             k == Cardinality({m \in 1..Len(rest) : rest[m].count > h.count})
         IN  SubSeq(rest, 1, k) \o <<h>> \o SubSeq(rest, k + 1, Len(rest))

\* s[:n] for n >= 0
Take(s, n) == SubSeq(s, 1, IF n < Len(s) THEN n ELSE Len(s))

\* the loop of collect_top_phrases_for_recursion over all_results
RECURSIVE FlattenFiltered(_, _)
FlattenFiltered(results, minus_words) ==
    IF results = <<>> THEN <<>>
    ELSE (IF HasTop(Head(results))
             THEN FilterByMinusWords(Head(results).topRequests, minus_words)
             ELSE <<>>)
         \o FlattenFiltered(Tail(results), minus_words)

\* collect_top_phrases_for_recursion(all_results, minus_words, top_n)
collect_top_phrases_for_recursion(results, minus_words, top_n) ==
    LET top == Take(SortByCountDesc(FlattenFiltered(results, minus_words)), top_n)
    IN  [k \in 1..Len(top) |-> top[k].phrase]

(***************************************************************************)
(* The report: generate_query_section, generate_summary, save_to_csv.      *)
(***************************************************************************)
\* a tracking that starts the source list anew at every sighting
Record_Overwrite(seen, phrase_text, query) ==
    IF \E k \in 1..Len(seen) : seen[k].phrase = phrase_text
        THEN [k \in 1..Len(seen) |->
                 IF seen[k].phrase = phrase_text
                     THEN [seen[k] EXCEPT !.sources = <<query>>]
                     ELSE seen[k]]
        ELSE Append(seen, [phrase |-> phrase_text, sources |-> <<query>>])

\* the duplicate tracking of generate_query_section: seen_phrases is kept
\* as the sequence of its items in insertion order
Record(seen, phrase_text, query) ==
    IF \E k \in 1..Len(seen) : seen[k].phrase = phrase_text
        THEN [k \in 1..Len(seen) |->
                 IF seen[k].phrase = phrase_text
                     THEN [seen[k] EXCEPT !.sources = Append(@, query)]
                     ELSE seen[k]]
        ELSE Append(seen, [phrase |-> phrase_text, sources |-> <<query>>])

RECURSIVE RecordAll(_, _, _)
RecordAll(seen, rows, query) ==
    IF rows = <<>> THEN seen
    ELSE RecordAll(Record(seen, Head(rows).phrase, query), Tail(rows), query)

\* the rows of the table generate_query_section writes for one result
TopTable(result, limit, minus_words) ==
    IF ~HasTop(result) THEN <<>>
    ELSE Take(SortByCountDesc(FilterByMinusWords(result.topRequests, minus_words)),
              limit)

\* the loop of save_results over zip(queries, all_results), first n pairs
RECURSIVE Sections(_, _, _, _, _)
Sections(queries, results, n, limit, minus_words) ==
    IF n = 0 THEN [tables |-> <<>>, seen |-> <<>>]
    ELSE LET before == Sections(queries, results, n - 1, limit, minus_words)
             rows == TopTable(results[n], limit, minus_words)
         IN  [tables |-> Append(before.tables, rows),
              seen |-> RecordAll(before.seen, rows, queries[n])]

\* every entry of every topRequests list, as generate_summary collects them
RECURSIVE FlattenAll(_)
FlattenAll(results) ==
    IF results = <<>> THEN <<>>
    ELSE (IF HasTop(Head(results)) THEN Head(results).topRequests ELSE <<>>)
         \o FlattenAll(Tail(results))

SummaryTop == 10

\* the top list of generate_summary
generate_summary(results) ==
    Take(SortByCountDesc(FlattenAll(results)), SummaryTop)

\* the rows save_to_csv writes
save_to_csv(seen, minus_words) ==
    LET keep(e) == ~has_minus_words(e.phrase, minus_words)
        kept == SelectSeq(seen, keep)
    IN  [k \in 1..Len(kept) |->
            [phrase |-> kept[k].phrase, sources_count |-> Len(kept[k].sources)]]

\* sum(1 for r in all_results if r)
Successful(results) == Cardinality({k \in 1..Len(results) : Truthy(results[k])})

NoOutput == [written |-> FALSE, tables |-> <<>>, seen |-> <<>>,
             top10 |-> <<>>, csv |-> <<>>, successful |-> 0, failed |-> 0]

(***************************************************************************)
(* What the run reads: .env, config.json, queries.txt.  `missing` names    *)
(* the one thing that is absent, or "none".                                *)
(***************************************************************************)
SeedPool == <<T_rem, T_okna, T_dver>>
SeedLists == {SubSeq(SeedPool, 1, n) : n \in 1..MaxSeeds}

\* absent file or section: load_env, load_config, load_queries call sys.exit
FatalAtLoad == {"env", "config", "queries"}
\* keys main() reads with [] while it prints the settings, before the loop
ReadBeforeLoop == {"city", "devices"}
\* keys read with [] later, and keys read with .get(key, default)
ReadLater == {"delay_between_requests", "top_results_limit"}
Optional == {"recursive_parsing", "recursion_depth", "recursive_top_queries",
             "minus_words"}

BaseConfigs ==
    [missing : {"none"}, queries : SeedLists, recursive_parsing : BOOLEAN,
     recursion_depth : {1, 2, 3}, recursive_top_queries : {1, 2},
     minus_words : {<<>>, <<W_SPB>>}, top_results_limit : {2}]
FaultConfigs ==
    [missing : FatalAtLoad \cup ReadBeforeLoop \cup ReadLater \cup Optional,
     queries : SeedLists, recursive_parsing : {TRUE},
     recursion_depth : {2}, recursive_top_queries : {2},
     minus_words : {<<W_SPB>>}, top_results_limit : {2}]
Configs == BaseConfigs \cup FaultConfigs

DefaultRecursionDepth == 2
DefaultRecursiveTopN == 10

\* settings.get('recursive_parsing', False)
RecursiveEnabled(cfg) ==
    IF cfg.missing = "recursive_parsing" THEN FALSE ELSE cfg.recursive_parsing
\* settings.get('recursion_depth', 2)
RecursionDepth(cfg) ==
    IF cfg.missing = "recursion_depth" THEN DefaultRecursionDepth
    ELSE cfg.recursion_depth
\* settings.get('recursive_top_queries', 10)
RecursiveTopN(cfg) ==
    IF cfg.missing = "recursive_top_queries" THEN DefaultRecursiveTopN
    ELSE cfg.recursive_top_queries
\* settings.get('minus_words', [])
MinusWords(cfg) ==
    IF cfg.missing = "minus_words" THEN <<>> ELSE cfg.minus_words

\* the depth test off by one
ExpansionEnabled_DepthOne(enabled, depth) == enabled /\ depth >= 1

\* if recursive_enabled and recursion_depth >= 2
ExpansionEnabled(enabled, depth) == enabled /\ depth >= 2

\* a test that looks only at the query issued last
AlreadyIssued_LastOnly(query, issued) ==
    issued # <<>> /\ issued[Len(issued)] = query

\* if query in all_queries: continue
AlreadyIssued(query, issued) == InList(query, issued)

(***************************************************************************)
(* The components exercised on their own, at rest while main() runs.       *)
(***************************************************************************)
IdleDedup == [seen |-> <<>>, log |-> <<>>]
IdleTitle == [status |-> "idle", phrase |-> <<>>, category |-> <<>>,
              city |-> <<>>, template_index |-> 0, title |-> <<>>]
IdleClassify ==
    [status |-> "idle", phrase |-> <<>>, city_name |-> <<>>, tested |-> 0,
     category |-> "", emoji |-> <<>>]
IdleCluster ==
    [status |-> "idle", phrases |-> <<>>, min_freq |-> 0, filtered |-> <<>>,
     done |-> 0, semantic_clusters |-> <<>>, rerun_clusters |-> <<>>,
     category_clusters |-> <<>>, result |-> <<>>]

(***************************************************************************)
(* main()                                                                  *)
(***************************************************************************)
Init ==
    /\ pc = "start"
    /\ config \in Configs
    /\ all_results = <<>>
    /\ all_queries = <<>>
    /\ idx = 0
    /\ recursive_queries = <<>>
    /\ rounds = 0
    /\ netCalls = 0
    /\ output = NoOutput
    /\ f = IdleFrame
    /\ timeline = <<>>
    /\ dedup = IdleDedup
    /\ cls = IdleClassify
    /\ cl = IdleCluster
    /\ ttl = IdleTitle

\* load_env, load_config, load_queries, and the reads of the settings up
\* to the level-1 loop
Load ==
    /\ pc = "start"
    /\ IF config.missing \in FatalAtLoad
           THEN pc' = "exited" /\ UNCHANGED <<all_queries, idx>>
       ELSE IF config.missing \in ReadBeforeLoop
           THEN pc' = "keyerror" /\ UNCHANGED <<all_queries, idx>>
       ELSE /\ pc' = "L1"
            /\ all_queries' = config.queries
            /\ idx' = 1
    /\ UNCHANGED <<sideVars, config, all_results, recursive_queries, rounds, netCalls,
                   output, f, timeline>>

\* one pass of the level-1 loop up to the call of fetch_top_requests
L1Call ==
    /\ pc = "L1"
    /\ idx <= Len(config.queries)
    /\ f' = NewFrame(config.queries[idx], DefaultMaxRetries)
    /\ timeline' = Append(timeline, "fetch1")
    /\ pc' = "L1_fetch"
    /\ UNCHANGED <<sideVars, mainVars, netCalls>>

\* if i < len(queries): the test that guards the delay sleep
DelayDue(i, list) == i < Len(list)

\* the rest of a pass of either loop: the result is appended, and unless
\* this was the last element the delay is read from the settings and slept
AfterFetch(level, list) ==
    /\ pc = level \o "_fetch"
    /\ f.status = "returned"
    /\ all_results' = Append(all_results, f.result)
    /\ f' = IdleFrame
    /\ IF DelayDue(idx, list) /\ config.missing = "delay_between_requests"
           THEN pc' = "keyerror" /\ idx' = idx /\ UNCHANGED timeline
           ELSE /\ pc' = level
                /\ idx' = idx + 1
                /\ timeline' = IF DelayDue(idx, list)
                                   THEN Append(timeline, "delay")
                                   ELSE timeline
    /\ UNCHANGED <<sideVars, config, all_queries, recursive_queries, rounds, netCalls,
                   output>>

L1Return == AfterFetch("L1", config.queries)

\* an exception leaving fetch_top_requests is caught nowhere in main()
Propagate ==
    /\ pc \in {"L1_fetch", "L2_fetch"}
    /\ f.status = "raised"
    /\ pc' = "raised"
    /\ UNCHANGED <<sideVars, mainVars, netCalls, f, timeline>>

\* the end of the level-1 loop and the test that opens level 2
L2Enter ==
    /\ pc = "L1"
    /\ idx > Len(config.queries)
    /\ pc' = "L2"
    /\ idx' = 1
    /\ IF ExpansionEnabled(RecursiveEnabled(config), RecursionDepth(config))
           THEN /\ recursive_queries' =
                       collect_top_phrases_for_recursion(
                           all_results, MinusWords(config), RecursiveTopN(config))
                /\ rounds' = rounds + 1
           ELSE UNCHANGED <<recursive_queries, rounds>>
    /\ UNCHANGED <<sideVars, config, all_results, all_queries, netCalls, output, f,
                   timeline>>

L2Skip ==
    /\ pc = "L2"
    /\ idx <= Len(recursive_queries)
    /\ AlreadyIssued(recursive_queries[idx], all_queries)
    /\ idx' = idx + 1
    /\ UNCHANGED <<sideVars, pc, config, all_results, all_queries, recursive_queries,
                   rounds, netCalls, output, f, timeline>>

L2Call ==
    /\ pc = "L2"
    /\ idx <= Len(recursive_queries)
    /\ ~AlreadyIssued(recursive_queries[idx], all_queries)
    /\ all_queries' = Append(all_queries, recursive_queries[idx])
    /\ f' = NewFrame(recursive_queries[idx], DefaultMaxRetries)
    /\ timeline' = Append(timeline, "fetch2")
    /\ pc' = "L2_fetch"
    /\ UNCHANGED <<sideVars, config, all_results, idx, recursive_queries, rounds,
                   netCalls, output>>

L2Return == AfterFetch("L2", recursive_queries)

\* the count of successful queries, save_results and save_to_csv
Report ==
    /\ pc = "L2"
    /\ idx > Len(recursive_queries)
    /\ LET successful == Successful(all_results)
           failed == Len(all_queries) - successful
           n == IF Len(all_queries) < Len(all_results)
                    THEN Len(all_queries) ELSE Len(all_results)
           sec == Sections(all_queries, all_results, n,
                           config.top_results_limit, MinusWords(config))
       IN  IF successful > 0 /\ config.missing = "top_results_limit"
               THEN pc' = "keyerror" /\ UNCHANGED output
           ELSE /\ pc' = "done"
                /\ output' =
                     IF successful > 0
                         THEN [written |-> TRUE,
                               tables |-> sec.tables,
                               seen |-> sec.seen,
                               top10 |-> generate_summary(all_results),
                               csv |-> save_to_csv(sec.seen, MinusWords(config)),
                               successful |-> successful,
                               failed |-> failed]
                         ELSE [NoOutput EXCEPT !.successful = successful,
                                               !.failed = failed]
    /\ UNCHANGED <<sideVars, config, all_results, all_queries, idx, recursive_queries,
                   rounds, netCalls, f, timeline>>

Next ==
    \/ Load
    \/ L1Call
    \/ L1Return
    \/ FetchStep
    \/ Propagate
    \/ L2Enter
    \/ L2Skip
    \/ L2Call
    \/ L2Return
    \/ Report

Spec == Init /\ [][Next]_vars

(***************************************************************************)
(* One invocation of fetch_top_requests on its own, for every retry budget *)
(* from 1 to MaxRetries.                                                   *)
(***************************************************************************)
StandaloneConfig ==
    [missing |-> "none", queries |-> <<T_rem>>, recursive_parsing |-> FALSE,
     recursion_depth |-> 1, recursive_top_queries |-> 1, minus_words |-> <<>>,
     top_results_limit |-> 2]

\* main() is not running
MainAtRest ==
    /\ pc = "standalone"
    /\ config = StandaloneConfig
    /\ all_results = <<>>
    /\ all_queries = <<>>
    /\ idx = 0
    /\ recursive_queries = <<>>
    /\ rounds = 0
    /\ netCalls = 0
    /\ output = NoOutput
    /\ timeline = <<>>

InitFetch ==
    /\ MainAtRest
    /\ dedup = IdleDedup
    /\ cls = IdleClassify
    /\ cl = IdleCluster
    /\ ttl = IdleTitle
    /\ \E phrase \in {T_rem, T_okna}, max_retries \in 1..MaxRetries :
           f = NewFrame(phrase, max_retries)

SpecFetch == InitFetch /\ [][FetchStep]_vars

(***************************************************************************)
(* SeenPhrases on its own: any sequence of at most MaxSightings sightings  *)
(* is recorded, one at a time, and the duplicates are read off.            *)
(***************************************************************************)
\* track_duplicates(all_phrases), as the items of the dict it returns
track_duplicates(seen) ==
    LET dup(e) == Len(e.sources) > 1
        kept == SelectSeq(seen, dup)
    IN  [k \in 1..Len(kept) |->
            [phrase |-> kept[k].phrase, count |-> Len(kept[k].sources)]]

SightingPhrases == {T_rem, T_okna, T_remSPB}
SightingQueries == {T_dver, T_plitka}

InitSeen ==
    /\ MainAtRest
    /\ f = IdleFrame
    /\ dedup = IdleDedup
    /\ cls = IdleClassify
    /\ cl = IdleCluster
    /\ ttl = IdleTitle

\* one pass of the loop of generate_query_section over top_phrases
RecordSighting ==
    /\ Len(dedup.log) < MaxSightings
    /\ \E phrase \in SightingPhrases, query \in SightingQueries :
           dedup' = [seen |-> Record(dedup.seen, phrase, query),
                     log |-> Append(dedup.log,
                                    [phrase |-> phrase, query |-> query])]
    /\ UNCHANGED <<pc, mainVars, netCalls, f, timeline, cls, cl, ttl>>

SpecSeen == InitSeen /\ [][RecordSighting]_vars

(***************************************************************************)
(* categorize_phrase.  A Cyrillic letter is written as one character:      *)
(* a b v g d e j z i y k l m n o p r s t u f h c stand for the letters     *)
(* they sound like, 4 for che, w for sha, 5 for shcha, 6 for the hard      *)
(* sign, 7 for yery, q for the soft sign, 3 for e oborotnoye, 8 for yu,    *)
(* 9 for ya, 0 for yo.  An upper-case letter is the upper-case character.  *)
(* A Latin letter is written as the letter followed by an apostrophe, so   *)
(* that it differs from every Cyrillic letter.                             *)
(***************************************************************************)
\* CATEGORY_KEYWORDS['commercial']: kupit', zakazat', pod klyuch, nedorogo, deshevo, cena, stoimost', prajs
\*   akciya, skidka, dostavka, ustanovka, montazh, vyzvat', uslugi
Keywords_commercial ==
    << <<"k", "u", "p", "i", "t", "q">>,
       <<"z", "a", "k", "a", "z", "a", "t", "q">>,
       <<"p", "o", "d", " ", "k", "l", "8", "4">>,
       <<"n", "e", "d", "o", "r", "o", "g", "o">>,
       <<"d", "e", "w", "e", "v", "o">>,
       <<"c", "e", "n", "a">>,
       <<"s", "t", "o", "i", "m", "o", "s", "t", "q">>,
       <<"p", "r", "a", "y", "s">>,
       <<"a", "k", "c", "i", "9">>,
       <<"s", "k", "i", "d", "k", "a">>,
       <<"d", "o", "s", "t", "a", "v", "k", "a">>,
       <<"u", "s", "t", "a", "n", "o", "v", "k", "a">>,
       <<"m", "o", "n", "t", "a", "j">>,
       <<"v", "7", "z", "v", "a", "t", "q">>,
       <<"u", "s", "l", "u", "g", "i">> >>

\* CATEGORY_KEYWORDS['informational']: kak, chto takoe, pochemu, zachem, kogda, gde, kakoj, kakaya
\*   kakie, sposoby, metody, instrukciya, rukovodstvo, sovety, etapy
Keywords_informational ==
    << <<"k", "a", "k">>,
       <<"4", "t", "o", " ", "t", "a", "k", "o", "e">>,
       <<"p", "o", "4", "e", "m", "u">>,
       <<"z", "a", "4", "e", "m">>,
       <<"k", "o", "g", "d", "a">>,
       <<"g", "d", "e">>,
       <<"k", "a", "k", "o", "y">>,
       <<"k", "a", "k", "a", "9">>,
       <<"k", "a", "k", "i", "e">>,
       <<"s", "p", "o", "s", "o", "b", "7">>,
       <<"m", "e", "t", "o", "d", "7">>,
       <<"i", "n", "s", "t", "r", "u", "k", "c", "i", "9">>,
       <<"r", "u", "k", "o", "v", "o", "d", "s", "t", "v", "o">>,
       <<"s", "o", "v", "e", "t", "7">>,
       <<"3", "t", "a", "p", "7">> >>

\* CATEGORY_KEYWORDS['price']: cena, stoimost', prajs, skol'ko stoit, rascenki
\*   tarif, stoit, za kvadratnyj metr
Keywords_price ==
    << <<"c", "e", "n", "a">>,
       <<"s", "t", "o", "i", "m", "o", "s", "t", "q">>,
       <<"p", "r", "a", "y", "s">>,
       <<"s", "k", "o", "l", "q", "k", "o", " ", "s", "t", "o", "i", "t">>,
       <<"r", "a", "s", "c", "e", "n", "k", "i">>,
       <<"t", "a", "r", "i", "f">>,
       <<"s", "t", "o", "i", "t">>,
       <<"z", "a", " ", "k", "v", "a", "d", "r", "a", "t", "n", "7", "y", " ", "m", "e", "t", "r">> >>

\* CATEGORY_KEYWORDS['comparison']: otzyvy, rejting, luchshie, top, sravnenie
\*   vs, ili, kakoj vybrat', chto luchshe
Keywords_comparison ==
    << <<"o", "t", "z", "7", "v", "7">>,
       <<"r", "e", "y", "t", "i", "n", "g">>,
       <<"l", "u", "4", "w", "i", "e">>,
       <<"t", "o", "p">>,
       <<"s", "r", "a", "v", "n", "e", "n", "i", "e">>,
       <<"v'", "s'">>,
       <<"i", "l", "i">>,
       <<"k", "a", "k", "o", "y", " ", "v", "7", "b", "r", "a", "t", "q">>,
       <<"4", "t", "o", " ", "l", "u", "4", "w", "e">> >>

\* the order in which the loop of categorize_phrase meets the categories,
\* as the code comment above the loop announces it
CategoryOrder_PriceFirst ==
    <<"price", "commercial", "informational", "comparison">>

\* the order in which the loop of categorize_phrase meets the categories:
\* the insertion order of the dict
CategoryOrder == <<"commercial", "informational", "price", "comparison">>

CATEGORY_KEYWORDS ==
    [commercial    |-> Keywords_commercial,
     informational |-> Keywords_informational,
     price         |-> Keywords_price,
     comparison    |-> Keywords_comparison]

\* the markers, by name: shopping cart, books, money bag, scales, pin,
\* magnifying glass
CATEGORY_EMOJI ==
    [commercial    |-> "cart",
     informational |-> "books",
     price         |-> "money_bag",
     comparison    |-> "scales",
     local         |-> "pin",
     other         |-> "magnifier"]

\* str.capitalize() on the category names
Capitalize(category) ==
    CASE category = "commercial"    -> "Commercial"
      [] category = "informational" -> "Informational"
      [] category = "price"         -> "Price"
      [] category = "comparison"    -> "Comparison"

\* any keyword of the list is a substring of the lower-cased phrase
MatchesAny(keywords, phrase_lower) ==
    \E k \in 1..Len(keywords) : Contains(phrase_lower, keywords[k])

\* city_name.lower() in phrase_lower
IsLocal(phrase, city_name) == Contains(Lower(phrase), Lower(city_name))

\* a marker that flags every local phrase
Marker_LocalAlways(category, is_local) ==
    IF is_local
        THEN <<CATEGORY_EMOJI.local, " ", CATEGORY_EMOJI[category]>>
        ELSE <<CATEGORY_EMOJI[category]>>

\* the marker of a matched category; a marker is the text made of the
\* named symbols and spaces
Marker(category, is_local) ==
    IF is_local /\ category # "informational"
        THEN <<CATEGORY_EMOJI.local, " ", CATEGORY_EMOJI[category]>>
        ELSE <<CATEGORY_EMOJI[category]>>

\* the marker when no category matched
NoMatchMarker(is_local) ==
    IF is_local THEN <<CATEGORY_EMOJI.local>> ELSE <<CATEGORY_EMOJI.other>>

\* the phrases categorize_phrase is run on
Q_kupit_noutbuk ==
    <<"k", "u", "p", "i", "t", "q", " ", "n", "o", "u", "t", "b", "u", "k">>
Q_kupit_noutbuk_moskva ==
    <<"k", "u", "p", "i", "t", "q", " ", "n", "o", "u", "t", "b", "u", "k", " ", "m", "o", "s", "k", "v", "a">>
Q_Kupit_Noutbuk_Moskva ==
    <<"K", "u", "p", "i", "t", "q", " ", "N", "o", "u", "t", "b", "u", "k", " ", "M", "o", "s", "k", "v", "a">>
Q_kupit_noutbuk_cena ==
    <<"k", "u", "p", "i", "t", "q", " ", "n", "o", "u", "t", "b", "u", "k", " ", "c", "e", "n", "a">>
Q_noutbuk_cena_moskva ==
    <<"n", "o", "u", "t", "b", "u", "k", " ", "c", "e", "n", "a", " ", "m", "o", "s", "k", "v", "a">>
Q_skolko_stoit_noutbuk ==
    <<"s", "k", "o", "l", "q", "k", "o", " ", "s", "t", "o", "i", "t", " ", "n", "o", "u", "t", "b", "u", "k">>
Q_tarif_moskva ==
    <<"t", "a", "r", "i", "f", " ", "m", "o", "s", "k", "v", "a">>
Q_kak_vybrat_noutbuk ==
    <<"k", "a", "k", " ", "v", "7", "b", "r", "a", "t", "q", " ", "n", "o", "u", "t", "b", "u", "k">>
Q_kak_vybrat_noutbuk_moskva ==
    <<"k", "a", "k", " ", "v", "7", "b", "r", "a", "t", "q", " ", "n", "o", "u", "t", "b", "u", "k", " ", "m", "o", "s", "k", "v", "a">>
Q_kak_kupit_noutbuk ==
    <<"k", "a", "k", " ", "k", "u", "p", "i", "t", "q", " ", "n", "o", "u", "t", "b", "u", "k">>
Q_kakoy_vybrat_noutbuk ==
    <<"k", "a", "k", "o", "y", " ", "v", "7", "b", "r", "a", "t", "q", " ", "n", "o", "u", "t", "b", "u", "k">>
Q_skolko_stoit_instrukciya ==
    <<"s", "k", "o", "l", "q", "k", "o", " ", "s", "t", "o", "i", "t", " ", "i", "n", "s", "t", "r", "u", "k", "c", "i", "9">>
Q_noutbuk_otzyvy ==
    <<"n", "o", "u", "t", "b", "u", "k", " ", "o", "t", "z", "7", "v", "7">>
Q_luchshie_noutbuki_moskva ==
    <<"l", "u", "4", "w", "i", "e", " ", "n", "o", "u", "t", "b", "u", "k", "i", " ", "m", "o", "s", "k", "v", "a">>
Q_dostavka_ili_samovyvoz ==
    <<"d", "o", "s", "t", "a", "v", "k", "a", " ", "i", "l", "i", " ", "s", "a", "m", "o", "v", "7", "v", "o", "z">>
Q_skakalka ==
    <<"s", "k", "a", "k", "a", "l", "k", "a">>
Q_topor_spb ==
    <<"t", "o", "p", "o", "r", " ", "s", "p", "b">>
Q_noutbuk ==
    <<"n", "o", "u", "t", "b", "u", "k">>
Q_noutbuk_moskva ==
    <<"n", "o", "u", "t", "b", "u", "k", " ", "m", "o", "s", "k", "v", "a">>
Q_NOUTBUK_SPB ==
    <<"N", "O", "U", "T", "B", "U", "K", " ", "S", "P", "B">>
ClassifyPhrases ==
    {Q_kupit_noutbuk,
     Q_kupit_noutbuk_moskva,
     Q_Kupit_Noutbuk_Moskva,
     Q_kupit_noutbuk_cena,
     Q_noutbuk_cena_moskva,
     Q_skolko_stoit_noutbuk,
     Q_tarif_moskva,
     Q_kak_vybrat_noutbuk,
     Q_kak_vybrat_noutbuk_moskva,
     Q_kak_kupit_noutbuk,
     Q_kakoy_vybrat_noutbuk,
     Q_skolko_stoit_instrukciya,
     Q_noutbuk_otzyvy,
     Q_luchshie_noutbuki_moskva,
     Q_dostavka_ili_samovyvoz,
     Q_skakalka,
     Q_topor_spb,
     Q_noutbuk,
     Q_noutbuk_moskva,
     Q_NOUTBUK_SPB}

\* the values of business.city; the last is the empty string
City_Moskva == <<"M", "o", "s", "k", "v", "a">>
City_spb == <<"s", "p", "b">>
City_none == <<>>
Cities == {City_Moskva, City_spb, City_none}

InitClassify ==
    /\ MainAtRest
    /\ f = IdleFrame
    /\ dedup = IdleDedup
    /\ cls = IdleClassify
    /\ cl = IdleCluster
    /\ ttl = IdleTitle

\* categorize_phrase(phrase, city_name) is entered
ClassifyCall ==
    /\ cls.status = "idle"
    /\ \E phrase \in ClassifyPhrases, city_name \in Cities :
           cls' = [IdleClassify EXCEPT !.status = "scanning",
                                       !.phrase = phrase,
                                       !.city_name = city_name]
    /\ UNCHANGED <<pc, mainVars, netCalls, f, timeline, dedup, cl, ttl>>

\* one pass of the loop over CATEGORY_KEYWORDS.items()
TestCategory ==
    /\ cls.status = "scanning"
    /\ cls.tested < Len(CategoryOrder)
    /\ LET category == CategoryOrder[cls.tested + 1]
       IN  IF MatchesAny(CATEGORY_KEYWORDS[category], Lower(cls.phrase))
               THEN cls' = [cls EXCEPT
                               !.status = "done",
                               !.category = Capitalize(category),
                               !.emoji = Marker(category,
                                                IsLocal(cls.phrase, cls.city_name))]
               ELSE cls' = [cls EXCEPT !.tested = cls.tested + 1]
    /\ UNCHANGED <<pc, mainVars, netCalls, f, timeline, dedup, cl, ttl>>

\* the loop ended without a return
ClassifyNoMatch ==
    /\ cls.status = "scanning"
    /\ cls.tested = Len(CategoryOrder)
    /\ cls' = [cls EXCEPT
                  !.status = "done",
                  !.category = "Other",
                  !.emoji = NoMatchMarker(IsLocal(cls.phrase, cls.city_name))]
    /\ UNCHANGED <<pc, mainVars, netCalls, f, timeline, dedup, cl, ttl>>

NextClassify ==
    \/ ClassifyCall
    \/ TestCategory
    \/ ClassifyNoMatch

SpecClassify == InitClassify /\ [][NextClassify]_vars

(***************************************************************************)
(* The clustering of src/planner.py: extract_root_words,                   *)
(* find_semantic_cluster and cluster_phrases.  A dict is the sequence of   *)
(* its items in insertion order; a set of words has no order of its own.   *)
(***************************************************************************)
\* stop_words: v, na, i, s, pod, dlya, po, ot, do, iz, k, o, spb, sankt, peterburg, moskva, msk
stop_words ==
    {<<"v">>,
     <<"n", "a">>,
     <<"i">>,
     <<"s">>,
     <<"p", "o", "d">>,
     <<"d", "l", "9">>,
     <<"p", "o">>,
     <<"o", "t">>,
     <<"d", "o">>,
     <<"i", "z">>,
     <<"k">>,
     <<"o">>,
     <<"s", "p", "b">>,
     <<"s", "a", "n", "k", "t">>,
     <<"p", "e", "t", "e", "r", "b", "u", "r", "g">>,
     <<"m", "o", "s", "k", "v", "a">>,
     <<"m", "s", "k">>}

\* special_patterns, in the insertion order of the dict: the label of a
\* pattern and its trigger substrings
special_patterns ==
    << [name |-> <<"p", "o", "d", " ", "k", "l", "8", "4">>,
        pattern_words |-> {<<"p", "o", "d">>,
                           <<"k", "l", "8", "4">>}],
       [name |-> <<"c", "e", "n", "a", " ", "s", "t", "o", "i", "m", "o", "s", "t", "q">>,
        pattern_words |-> {<<"c", "e", "n", "a">>,
                           <<"s", "t", "o", "i", "m", "o", "s", "t", "q">>,
                           <<"s", "k", "o", "l", "q", "k", "o">>,
                           <<"s", "t", "o", "i", "t">>,
                           <<"p", "r", "a", "y", "s">>}],
       [name |-> <<"h", "r", "u", "5", "e", "v", "k", "a">>,
        pattern_words |-> {<<"h", "r", "u", "5", "e", "v", "k">>}],
       [name |-> <<"m", "a", "l", "e", "n", "q", "k", "a", "9">>,
        pattern_words |-> {<<"m", "a", "l", "e", "n", "q", "k">>,
                           <<"n", "e", "b", "o", "l", "q", "w">>}],
       [name |-> <<"d", "e", "t", "s", "k", "a", "9">>,
        pattern_words |-> {<<"d", "e", "t", "s", "k">>}],
       [name |-> <<"g", "o", "s", "t", "i", "n", "a", "9">>,
        pattern_words |-> {<<"g", "o", "s", "t", "i", "n">>}],
       [name |-> <<"p", "a", "n", "e", "l", "q", "n", "7", "y", " ", "d", "o", "m">>,
        pattern_words |-> {<<"p", "a", "n", "e", "l", "q", "n">>}] >>

\* the category names extract_category gives, in Latin letters
Category_commercial ==
    <<"c'", "o'", "m'", "m'", "e'", "r'", "c'", "i'", "a'", "l'">>
Category_local ==
    <<"l'", "o'", "c'", "a'", "l'">>
Category_other ==
    <<"o'", "t'", "h'", "e'", "r'">>

\* the phrases cluster_phrases is run on, with the category that
\* parse_results_md read for each
\* remont kvartiry pod klyuch
P_kvartiry_pod_kluch ==
    <<"r", "e", "m", "o", "n", "t", " ", "k", "v", "a", "r", "t", "i", "r", "7", " ", "p", "o", "d", " ", "k", "l", "8", "4">>
\* remont pod klyuch nedorogo
P_pod_kluch_nedorogo ==
    <<"r", "e", "m", "o", "n", "t", " ", "p", "o", "d", " ", "k", "l", "8", "4", " ", "n", "e", "d", "o", "r", "o", "g", "o">>
\* remont vannoj komnaty
P_vannoy_komnaty ==
    <<"r", "e", "m", "o", "n", "t", " ", "v", "a", "n", "n", "o", "y", " ", "k", "o", "m", "n", "a", "t", "7">>
\* remont vannoj komnaty cena
P_vannoy_komnaty_cena ==
    <<"r", "e", "m", "o", "n", "t", " ", "v", "a", "n", "n", "o", "y", " ", "k", "o", "m", "n", "a", "t", "7", " ", "c", "e", "n", "a">>
\* remont vannoj komnaty spb
P_Vannoy_Komnaty_SPB ==
    <<"R", "e", "m", "o", "n", "t", " ", "V", "a", "n", "n", "o", "y", " ", "K", "o", "m", "n", "a", "t", "7", " ", "S", "P", "B">>
\* cena pod klyuch
P_cena_pod_kluch ==
    <<"c", "e", "n", "a", " ", "p", "o", "d", " ", "k", "l", "8", "4">>
\* v spb
P_v_spb ==
    <<"v", " ", "s", "p", "b">>
ClusterPhrases ==
    {[phrase |-> P_kvartiry_pod_kluch,
      category |-> Category_commercial],
     [phrase |-> P_pod_kluch_nedorogo,
      category |-> Category_commercial],
     [phrase |-> P_vannoy_komnaty,
      category |-> Category_other],
     [phrase |-> P_vannoy_komnaty_cena,
      category |-> Category_commercial],
     [phrase |-> P_Vannoy_Komnaty_SPB,
      category |-> Category_local],
     [phrase |-> P_cena_pod_kluch,
      category |-> Category_commercial],
     [phrase |-> P_v_spb,
      category |-> Category_local]}

\* str.split(): the maximal runs of characters other than the space
RECURSIVE SplitAcc(_, _, _)
SplitAcc(s, word, acc) ==
    IF s = <<>>
        THEN IF word = <<>> THEN acc ELSE Append(acc, word)
        ELSE IF Head(s) = " "
            THEN SplitAcc(Tail(s), <<>>,
                          IF word = <<>> THEN acc ELSE Append(acc, word))
            ELSE SplitAcc(Tail(s), Append(word, Head(s)), acc)
Split(s) == SplitAcc(s, <<>>, <<>>)

\* ' '.join(words)
RECURSIVE Join(_)
Join(words) ==
    IF words = <<>> THEN <<>>
    ELSE IF Len(words) = 1 THEN words[1]
    ELSE words[1] \o <<" ">> \o Join(Tail(words))

extract_root_words(phrase) ==
    LET words == Split(Lower(phrase))
    IN  {words[k] : k \in {j \in 1..Len(words) :
                              Len(words[j]) > 2 /\ words[j] \notin stop_words}}

\* the value None as a cluster name
NoCluster == <<"None">>
\* Python truth value of a cluster name:  if cluster_name
NameGiven(cluster_name) == cluster_name # NoCluster /\ cluster_name # <<>>

DefaultMinCommonWords == 2
DefaultMinFrequency == 50
FallbackNameLength == 30

\* any(word in phrase.lower() for word in pattern_words)
TriggeredBy(phrase, pattern_words) ==
    LET phrase_lower == Lower(phrase)
    IN  \E word \in pattern_words : Contains(phrase_lower, word)

\* the loop over special_patterns.items(), from pattern k on
RECURSIVE FirstSpecialPattern(_, _)
FirstSpecialPattern(phrase, k) ==
    IF k > Len(special_patterns) THEN NoCluster
    ELSE IF TriggeredBy(phrase, special_patterns[k].pattern_words)
        THEN special_patterns[k].name
        ELSE FirstSpecialPattern(phrase, k + 1)

\* the loop over existing_clusters.items(), from cluster k on
RECURSIVE BestMatch(_, _, _, _, _, _)
BestMatch(phrase_words, existing_clusters, min_common_words, k, best_match, max_common) ==
    IF k > Len(existing_clusters) THEN best_match
    ELSE LET cluster == existing_clusters[k]
             common_words ==
                 IF cluster.members = <<>> THEN {}
                 ELSE phrase_words
                          \cap extract_root_words(cluster.members[1].phrase)
             better == /\ cluster.members # <<>>
                       /\ Cardinality(common_words) >= min_common_words
                       /\ Cardinality(common_words) > max_common
         IN  BestMatch(phrase_words, existing_clusters, min_common_words, k + 1,
                       IF better THEN cluster.name ELSE best_match,
                       IF better THEN Cardinality(common_words) ELSE max_common)

\* a search that looks at the word overlap before the special patterns
find_semantic_cluster_OverlapFirst(phrase, existing_clusters) ==
    LET byWords == BestMatch(extract_root_words(phrase), existing_clusters,
                             DefaultMinCommonWords, 1, NoCluster, 0)
    IN  IF byWords # NoCluster THEN byWords
        ELSE FirstSpecialPattern(phrase, 1)

find_semantic_cluster(phrase, existing_clusters) ==
    LET special == FirstSpecialPattern(phrase, 1)
    IN  IF special # NoCluster THEN special
        ELSE BestMatch(extract_root_words(phrase), existing_clusters,
                       DefaultMinCommonWords, 1, NoCluster, 0)

\* the orders sorted(root_words, key=len, reverse=True) can give: the sort
\* is stable on the order in which the set is iterated, and that order is
\* any order
SortedByLength(root_words) ==
    LET n == Cardinality(root_words)
    IN  {o \in [1..n -> root_words] :
            /\ \A i, j \in 1..n : i # j => o[i] # o[j]
            /\ \A i \in 1..(n - 1) : Len(o[i]) >= Len(o[i + 1])}

\* a naming that joins all the significant words
NewClusterNames_AllWords(phrase) ==
    LET root_words == extract_root_words(phrase)
    IN  IF root_words # {}
            THEN {Join(sorted_words) :
                      sorted_words \in SortedByLength(root_words)}
            ELSE {Take(phrase, FallbackNameLength)}

\* the names a new cluster founded by the phrase can get
NewClusterNames(phrase) ==
    LET root_words == extract_root_words(phrase)
    IN  IF root_words # {}
            THEN {Join(Take(sorted_words, 2)) :
                      sorted_words \in SortedByLength(root_words)}
            ELSE {Take(phrase, FallbackNameLength)}

\* the names of the cluster the phrase goes to: the one found, or a new one
ClusterNamesFor(phrase, clusters) ==
    LET cluster_name == find_semantic_cluster(phrase, clusters)
    IN  IF NameGiven(cluster_name) THEN {cluster_name}
        ELSE NewClusterNames(phrase)

\* clusters[name].append(phrase_data) on a defaultdict(list)
AddMember(clusters, name, phrase_data) ==
    IF \E k \in 1..Len(clusters) : clusters[k].name = name
        THEN [k \in 1..Len(clusters) |->
                 IF clusters[k].name = name
                     THEN [clusters[k] EXCEPT
                              !.members = Append(@, phrase_data)]
                     ELSE clusters[k]]
        ELSE Append(clusters, [name |-> name, members |-> <<phrase_data>>])

\* a filter that drops the phrases at the threshold
FilterMinFrequency_Strict(phrases, min_freq) ==
    LET kept(p) == p.frequency > min_freq
    IN  SelectSeq(phrases, kept)

\* [p for p in phrases if p['frequency'] >= min_freq]
FilterMinFrequency(phrases, min_freq) ==
    LET kept(p) == p.frequency >= min_freq
    IN  SelectSeq(phrases, kept)

\* a sort that puts records of equal frequency in reverse order
RECURSIVE SortByFrequencyDesc_TiesReversed(_)
SortByFrequencyDesc_TiesReversed(s) ==
    IF s = <<>> THEN <<>>
    ELSE LET rest == SortByFrequencyDesc_TiesReversed(SubSeq(s, 1, Len(s) - 1))
             x == s[Len(s)]
             n == Cardinality({k \in 1..Len(rest) :
                                  rest[k].frequency > x.frequency})
         IN  SubSeq(rest, 1, n) \o <<x>> \o SubSeq(rest, n + 1, Len(rest))

\* list.sort(key=frequency, reverse=True): stable
RECURSIVE SortByFrequencyDesc(_)
SortByFrequencyDesc(s) ==
    IF s = <<>> THEN <<>>
    ELSE LET rest == SortByFrequencyDesc(SubSeq(s, 1, Len(s) - 1))
             x == s[Len(s)]
             n == Cardinality({k \in 1..Len(rest) :
                                  rest[k].frequency >= x.frequency})
         IN  SubSeq(rest, 1, n) \o <<x>> \o SubSeq(rest, n + 1, Len(rest))

\* the loop that fills category_clusters
RECURSIVE GroupByCategory(_, _)
GroupByCategory(filtered, acc) ==
    IF filtered = <<>> THEN acc
    ELSE GroupByCategory(Tail(filtered),
                         AddMember(acc, Head(filtered).category, Head(filtered)))

\* the two loops that sort every group by frequency
SortGroups(clusters) ==
    [k \in 1..Len(clusters) |->
        [clusters[k] EXCEPT !.members = SortByFrequencyDesc(@)]]

\* the frequencies of the phrase records: the default threshold and the
\* configured one, so that a record is at, above or below the threshold
ClusterFrequencies == {50, 90}
\* content_plan_settings: without min_frequency_threshold, or with one
ClusterSettings ==
    {[has_threshold |-> FALSE, min_frequency_threshold |-> 0],
     [has_threshold |-> TRUE, min_frequency_threshold |-> 90]}
\* settings.get('min_frequency_threshold', 50)
MinFrequency(settings) ==
    IF settings.has_threshold THEN settings.min_frequency_threshold
    ELSE DefaultMinFrequency

\* the lists of phrase records parse_results_md can hand over: up to
\* MaxPhrases records of different phrases; pos is the identity of the
\* record object
ClusterInputs ==
    LET records == {[phrase |-> b.phrase, category |-> b.category,
                     frequency |-> fr] :
                        b \in ClusterPhrases, fr \in ClusterFrequencies}
        lists == UNION {[1..n -> records] : n \in 0..MaxPhrases}
    IN  {[k \in 1..Len(t) |->
             [phrase |-> t[k].phrase, category |-> t[k].category,
              frequency |-> t[k].frequency, pos |-> k]] :
         t \in {u \in lists :
                   \A i, j \in 1..Len(u) : i # j => u[i].phrase # u[j].phrase}}

InitCluster ==
    /\ MainAtRest
    /\ f = IdleFrame
    /\ dedup = IdleDedup
    /\ cls = IdleClassify
    /\ cl = IdleCluster
    /\ ttl = IdleTitle

\* cluster_phrases(phrases, config) up to the loop: filter and sort
ClusterCall ==
    /\ cl.status = "idle"
    /\ \E phrases \in ClusterInputs, settings \in ClusterSettings :
           LET min_freq == MinFrequency(settings)
           IN  cl' = [IdleCluster EXCEPT
                         !.status = "clustering",
                         !.phrases = phrases,
                         !.min_freq = min_freq,
                         !.filtered = SortByFrequencyDesc(
                                          FilterMinFrequency(phrases, min_freq))]
    /\ UNCHANGED <<pc, mainVars, netCalls, f, timeline, dedup, cls, ttl>>

\* one pass of the loop over filtered, in a run and in a second run on the
\* same input; the two runs iterate their word sets independently
ClusterStep ==
    /\ cl.status = "clustering"
    /\ cl.done < Len(cl.filtered)
    /\ LET phrase_data == cl.filtered[cl.done + 1]
       IN  \E name \in ClusterNamesFor(phrase_data.phrase, cl.semantic_clusters),
              rerun_name \in ClusterNamesFor(phrase_data.phrase, cl.rerun_clusters) :
               cl' = [cl EXCEPT
                         !.done = cl.done + 1,
                         !.semantic_clusters = AddMember(@, name, phrase_data),
                         !.rerun_clusters = AddMember(@, rerun_name, phrase_data)]
    /\ UNCHANGED <<pc, mainVars, netCalls, f, timeline, dedup, cls, ttl>>

\* after the loop: the grouping by category, the sorts, the return
ClusterReturn ==
    /\ cl.status = "clustering"
    /\ cl.done = Len(cl.filtered)
    /\ LET category_clusters == SortGroups(GroupByCategory(cl.filtered, <<>>))
       IN  cl' = [cl EXCEPT
                     !.status = "done",
                     !.semantic_clusters = SortGroups(@),
                     !.rerun_clusters = SortGroups(@),
                     !.category_clusters = category_clusters,
                     !.result = category_clusters]
    /\ UNCHANGED <<pc, mainVars, netCalls, f, timeline, dedup, cls, ttl>>

NextCluster ==
    \/ ClusterCall
    \/ ClusterStep
    \/ ClusterReturn

SpecCluster == InitCluster /\ [][NextCluster]_vars

(***************************************************************************)
(* Properties of fetch_top_requests, checked under SpecFetch.              *)
(***************************************************************************)

\* C1: an invocation issues at most max_retries remote calls, and no remote
\* call follows a successful attempt (a success is the last entry of the
\* log of attempts).
C1_AtMostMaxRetriesCalls ==
    /\ f.calls <= f.max_retries
    /\ f.calls = Len(f.log)
    /\ \A k \in 1..(Len(f.log) - 1) : f.log[k] # "ok"
    /\ (f.log # <<>> /\ f.log[Len(f.log)] = "ok") => f.status = "returned"

\* C1 witness: the whole budget of 3 was used and the invocation gave up.
C1_Witness ==
    /\ f.status = "returned"
    /\ f.max_retries = 3
    /\ f.calls = 3
    /\ f.log = <<"http", "url", "http">>
    /\ f.result = None

\* C2: no exception leaves fetch_top_requests: an invocation never ends
\* raising.
C2_NeverRaises == f.status # "raised"

\* C3: after the k-th attempt fails with a retryable error, if k is below
\* max_retries the invocation sleeps 5*k seconds and goes on to attempt k+1,
\* and if k = max_retries it returns None without sleeping; with budget 3
\* and outcomes error, error, success there are 3 calls, sleeps of 5 and 10
\* seconds, and the success result is returned.
C3_BackoffSchedule ==
    /\ \A k \in 1..Len(f.log) :
           f.log[k] \in Retryable =>
               IF k < f.max_retries
                   THEN /\ Len(f.sleeps) >= k
                        /\ f.sleeps[k] = 5 * k
                        /\ \/ Len(f.log) > k
                           \/ f.status = "running" /\ f.attempt = k + 1
                   ELSE /\ f.status = "returned"
                        /\ f.result = None
                        /\ Len(f.sleeps) = k - 1
    /\ (f.max_retries = 3 /\ f.log = <<"http", "http", "ok">>) =>
           /\ f.calls = 3
           /\ f.sleeps = <<5, 10>>
           /\ f.status = "returned"
           /\ f.result \in Responses

\* C4: an attempt that fails with an error that is neither a remote-error
\* response nor a transport error ends the invocation at once: it is the
\* last attempt, None is returned, and no sleep follows it, whatever budget
\* remains.
C4_UnexpectedFailsFast ==
    \A k \in 1..Len(f.log) :
        f.log[k] \in UnexpectedError =>
            /\ k = Len(f.log)
            /\ f.calls = k
            /\ f.status = "returned"
            /\ f.result = None
            /\ Len(f.sleeps) = k - 1

\* C4 witness: a body that is no JSON at the second of three attempts.
C4_Witness ==
    /\ f.max_retries = 3
    /\ f.log = <<"http", "bad_json">>
    /\ f.sleeps = <<5>>
    /\ f.status = "returned"

(***************************************************************************)
(* Properties of the run, checked under Spec.                              *)
(***************************************************************************)
NumSeeds == Len(config.queries)

\* the phrases of the topRequests lists of the first n results
PhrasesOf(results, n) ==
    {results[r].topRequests[m].phrase :
        <<r, m>> \in {p \in (1..n) \X (1..3) :
                        /\ p[1] <= Len(results)
                        /\ p[2] <= Len(results[p[1]].topRequests)}}

\* C5: results.md and results.csv are written only if some fetch of the
\* run gave a usable phrase list.
C5_OutputOnlyAfterSuccess ==
    output.written => \E k \in 1..Len(all_results) : HasTop(all_results[k])

\* C6: once the settings, the token and the seeds are loaded, fetch failures
\* never abort the run: it does not end on an exception, the seeds are the
\* first queries issued, in list order, and at most
\* seed_count + recursive_top_queries fetches are issued.
C6_FailuresNeverAbort ==
    (pc \notin {"start", "exited"}
       /\ config.missing \notin FatalAtLoad \cup ReadBeforeLoop) =>
        /\ pc \notin {"raised", "keyerror"}
        /\ SubSeq(all_queries, 1, NumSeeds) = config.queries
        /\ Len(all_results) <= NumSeeds + RecursiveTopN(config)
        /\ pc = "done" => Len(all_results) >= NumSeeds

\* C7: a run that stops on a missing settings value or seed file has issued
\* no remote call.
C7_ConfigErrorsBeforeNetwork ==
    pc \in {"exited", "keyerror"} => netCalls = 0

\* C8: a level-2 fetch is issued only if recursive_parsing is on and
\* recursion_depth >= 2; at most one expansion round is run, and exactly one
\* by the end of a run with expansion on; every level-2 query is a phrase of
\* a seed's result, so no phrase that only a level-2 fetch returned is
\* expanded.
C8_ExpansionBound ==
    LET on == RecursiveEnabled(config) /\ RecursionDepth(config) >= 2
    IN  /\ (Len(all_queries) > NumSeeds \/ pc = "L2_fetch" \/ rounds > 0) => on
        /\ rounds <= 1
        /\ (pc = "done" /\ on) => rounds = 1
        /\ pc \notin {"start", "exited", "keyerror"} =>
             \A k \in (NumSeeds + 1)..Len(all_queries) :
                 all_queries[k] \in PhrasesOf(all_results, NumSeeds)

\* C8 witness: a finished run with recursion_depth 3 that fetched at level
\* 2 and got back a phrase no seed had returned, which it did not fetch.
C8_Witness ==
    /\ pc = "done"
    /\ RecursiveEnabled(config)
    /\ RecursionDepth(config) = 3
    /\ Len(all_queries) > NumSeeds
    /\ \E p \in PhrasesOf(all_results, Len(all_results)) :
           /\ p \notin PhrasesOf(all_results, NumSeeds)
           /\ ~InList(p, all_queries)

\* C9: a phrase fetched at level 2 differs from every query issued before
\* it, seeds and earlier level-2 phrases alike, and the running level-2
\* fetch is for the query appended last.
C9_NoRefetch ==
    pc \notin {"start", "exited", "keyerror"} =>
        /\ \A k \in (NumSeeds + 1)..Len(all_queries) :
               \A m \in 1..(k - 1) : all_queries[m] # all_queries[k]
        /\ pc = "L2_fetch" => f.phrase = all_queries[Len(all_queries)]

\* C9 witness: a finished run whose candidate list held one phrase twice
\* and a seed, and that fetched the repeated phrase.
C9_Witness ==
    /\ pc = "done"
    /\ \E a, b \in 1..Len(recursive_queries) :
           /\ a < b
           /\ recursive_queries[a] = recursive_queries[b]
           /\ \E k \in (NumSeeds + 1)..Len(all_queries) :
                  all_queries[k] = recursive_queries[a]
    /\ \E a \in 1..Len(recursive_queries) :
           InList(recursive_queries[a], config.queries)

\* C10: no phrase holding a minus word is in the expansion candidates, in
\* a per-query table, in SeenPhrases, in the CSV rows or in the summary's
\* top list.
C10_MinusWordsExcluded ==
    LET bad(p) == has_minus_words(p, MinusWords(config))
    IN  /\ \A k \in 1..Len(recursive_queries) : ~bad(recursive_queries[k])
        /\ \A t \in 1..Len(output.tables) :
               \A k \in 1..Len(output.tables[t]) : ~bad(output.tables[t][k].phrase)
        /\ \A k \in 1..Len(output.seen) : ~bad(output.seen[k].phrase)
        /\ \A k \in 1..Len(output.csv) : ~bad(output.csv[k].phrase)
        /\ \A k \in 1..Len(output.top10) : ~bad(output.top10[k].phrase)

\* the places <<r, m>> of the phrase entries of the seeds' results that
\* hold no minus word
CandidatePlaces ==
    {p \in (1..NumSeeds) \X (1..3) :
        /\ p[1] <= Len(all_results)
        /\ all_results[p[1]].kind = "Top"
        /\ p[2] <= Len(all_results[p[1]].topRequests)
        /\ ~has_minus_words(all_results[p[1]].topRequests[p[2]].phrase,
                            MinusWords(config))}
EntryAt(p) == all_results[p[1]].topRequests[p[2]]
\* p comes before q in result order
PlaceBefore(p, q) == p[1] < q[1] \/ (p[1] = q[1] /\ p[2] < q[2])
\* the place of an entry after a stable sort by count, descending
PlaceRank(p) ==
    1 + Cardinality({q \in CandidatePlaces :
                        \/ EntryAt(q).count > EntryAt(p).count
                        \/ EntryAt(q).count = EntryAt(p).count /\ PlaceBefore(q, p)})

\* C18: the expansion candidates are the phrase texts of the first top_n
\* entries of: the entries of the successful results in result order,
\* without those holding a minus word, sorted by count descending with
\* equal counts in their original order; there are at most top_n of them.
C18_TopPhrasesForRecursion ==
    rounds > 0 =>
        LET top_n == RecursiveTopN(config)
            total == Cardinality(CandidatePlaces)
        IN  /\ Len(recursive_queries) = IF top_n < total THEN top_n ELSE total
            /\ \A p \in CandidatePlaces :
                   PlaceRank(p) <= top_n =>
                       recursive_queries[PlaceRank(p)] = EntryAt(p).phrase

\* C18 witness: two seeds, one failed and one with three entries; the entry
\* with the highest count holds a minus word, the other two have equal
\* counts, and top_n = 1 keeps the earlier of them.
C18_Witness ==
    /\ rounds > 0
    /\ NumSeeds = 2
    /\ ~HasTop(all_results[1])
    /\ all_results[2] = TopA
    /\ MinusWords(config) = <<W_SPB>>
    /\ RecursiveTopN(config) = 1
    /\ recursive_queries = <<T_okna>>

\* C19: inside a level every two consecutive fetches have one delay sleep
\* between them, and no delay sleep follows the last fetch of a level: at
\* the end of the run every delay sleep is followed by a fetch of the level
\* of the fetch before it.
C19_DelayBetweenFetches ==
    /\ \A k \in 1..(Len(timeline) - 1) : timeline[k] # timeline[k + 1]
    /\ timeline # <<>> => timeline[1] # "delay"
    /\ pc = "done" =>
         \A k \in 2..Len(timeline) :
             timeline[k] = "delay" =>
                 k < Len(timeline) /\ timeline[k + 1] = timeline[k - 1]

\* C20: every key of SeenPhrases is a lower-cased text and no two keys are
\* equal after lower-casing.
C20_SeenKeysLowerCased ==
    /\ \A a \in 1..Len(output.seen) :
           output.seen[a].phrase = Lower(output.seen[a].phrase)
    /\ \A a, b \in 1..Len(output.seen) :
           a # b => Lower(output.seen[a].phrase) # Lower(output.seen[b].phrase)

(***************************************************************************)
(* Properties of SeenPhrases, checked under SpecSeen.                      *)
(***************************************************************************)
\* the queries of the sightings of phrase p, in the order they were made
SightingsOf(p) ==
    LET mine(x) == x.phrase = p
        hits == SelectSeq(dedup.log, mine)
    IN  [k \in 1..Len(hits) |-> hits[k].query]

\* C11: after any sequence of sightings each phrase seen has one key, its
\* source list holds the queries of its sightings in discovery order (so
\* nothing was ever removed), and the duplicates view holds exactly the
\* phrases sighted more than once, each with its number of sightings.
C11_SourcesAndDuplicates ==
    LET seen == dedup.seen
        dups == track_duplicates(seen)
    IN  /\ \A a, b \in 1..Len(seen) : a # b => seen[a].phrase # seen[b].phrase
        /\ \A k \in 1..Len(dedup.log) :
               \E a \in 1..Len(seen) : seen[a].phrase = dedup.log[k].phrase
        /\ \A a \in 1..Len(seen) :
               /\ seen[a].sources = SightingsOf(seen[a].phrase)
               /\ Len(seen[a].sources) >= 1
        /\ \A p \in SightingPhrases :
               IF Len(SightingsOf(p)) > 1
                   THEN Cardinality({d \in 1..Len(dups) : dups[d].phrase = p}) = 1
                        /\ \A d \in 1..Len(dups) :
                               dups[d].phrase = p =>
                                   dups[d].count = Len(SightingsOf(p))
                   ELSE \A d \in 1..Len(dups) : dups[d].phrase # p

\* C11 witness: one phrase recorded from query A and then from query B is
\* a duplicate with count 2, beside a phrase sighted once.
C11_Witness ==
    /\ dedup.log = << [phrase |-> T_rem, query |-> T_dver],
                      [phrase |-> T_okna, query |-> T_dver],
                      [phrase |-> T_rem, query |-> T_plitka] >>
    /\ dedup.seen = << [phrase |-> T_rem, sources |-> <<T_dver, T_plitka>>],
                       [phrase |-> T_okna, sources |-> <<T_dver>>] >>
    /\ track_duplicates(dedup.seen) = << [phrase |-> T_rem, count |-> 2] >>

(***************************************************************************)
(* Properties of categorize_phrase, checked under SpecClassify.            *)
(***************************************************************************)
\* the rule sets in the order the specification gives
RuleSetsInOrder ==
    <<Keywords_commercial, Keywords_informational, Keywords_price,
      Keywords_comparison>>
RuleSetNames == <<"Commercial", "Informational", "Price", "Comparison">>
\* the first rule set with a keyword in the lower-cased phrase, 0 if none
FirstRuleSet(phrase) ==
    LET hits == {k \in 1..Len(RuleSetsInOrder) :
                    MatchesAny(RuleSetsInOrder[k], Lower(phrase))}
    IN  IF hits = {} THEN 0
        ELSE CHOOSE k \in hits : \A j \in hits : k <= j

OwnMarker(category) ==
    CASE category = "Commercial"    -> "cart"
      [] category = "Informational" -> "books"
      [] category = "Price"         -> "money_bag"
      [] category = "Comparison"    -> "scales"
      [] OTHER                      -> "none"

\* C13: the marker is the compound locality+category marker when a rule set
\* matched, the lower-cased city is in the lower-cased phrase and the
\* category is not informational; the category's own marker when a rule set
\* matched otherwise; the locality marker when none matched and the phrase
\* is local; the generic marker when none matched and it is not local.
C13_Marker ==
    cls.status = "done" =>
        LET matched == FirstRuleSet(cls.phrase) # 0
            local == Contains(Lower(cls.phrase), Lower(cls.city_name))
            own == OwnMarker(cls.category)
        IN  /\ matched /\ local /\ cls.category # "Informational"
                => cls.emoji = <<"pin", " ", own>>
            /\ matched /\ ~(local /\ cls.category # "Informational")
                => cls.emoji = <<own>>
            /\ ~matched /\ local => cls.emoji = <<"pin">>
            /\ ~matched /\ ~local => cls.emoji = <<"magnifier">>

\* C13 witness: 'kupit noutbuk moskva' with city 'Moskva' has been
\* classified commercial with the compound local+commercial marker.
C13_Witness ==
    /\ cls.status = "done"
    /\ cls.phrase = Q_kupit_noutbuk_moskva
    /\ cls.city_name = City_Moskva
    /\ cls.category = "Commercial"
    /\ cls.emoji = <<"pin", " ", "cart">>

(***************************************************************************)
(* Properties of cluster_phrases, checked under SpecCluster.               *)
(***************************************************************************)
\* C14: what cluster_phrases returns is the semantic clustering: the
\* clusters in creation order, each under its cluster name with its
\* members; the mapping the caller receives is keyed by cluster name and
\* not by category.
C14_ReturnsSemanticClusters ==
    cl.status = "done" => cl.result = cl.semantic_clusters

\* the number of places a record has in a grouping
Memberships(groups, rec) ==
    Cardinality({p \in (1..Len(groups)) \X (1..Len(cl.phrases)) :
                    /\ p[2] <= Len(groups[p[1]].members)
                    /\ groups[p[1]].members[p[2]] = rec})

\* C15: at the end of a clustering run every input record with frequency >=
\* min_frequency is in exactly one semantic cluster and in exactly one
\* category group, and a record with a lower frequency is in none; during
\* the run no record is in two clusters.
C15_ExactlyOneCluster ==
    \A pos \in 1..Len(cl.phrases) :
        LET rec == cl.phrases[pos]
        IN  /\ Memberships(cl.semantic_clusters, rec) <= 1
            /\ cl.status = "done" =>
                   IF rec.frequency >= cl.min_freq
                       THEN /\ Memberships(cl.semantic_clusters, rec) = 1
                            /\ Memberships(cl.category_clusters, rec) = 1
                       ELSE /\ Memberships(cl.semantic_clusters, rec) = 0
                            /\ Memberships(cl.category_clusters, rec) = 0

\* C15 witness: a finished run over three records, one below the threshold
\* and one exactly at it, that made two clusters.
C15_Witness ==
    /\ cl.status = "done"
    /\ Len(cl.phrases) = 3
    /\ Len(cl.semantic_clusters) = 2
    /\ \E a, b \in 1..3 :
           /\ cl.phrases[a].frequency < cl.min_freq
           /\ cl.phrases[b].frequency = cl.min_freq

\* the label of the first special pattern, in table order, with a trigger
\* in the lower-cased phrase; NoCluster when there is none
FirstLabel(phrase) ==
    LET lowered == Lower(phrase)
        hits == {k \in 1..Len(special_patterns) :
                    \E word \in special_patterns[k].pattern_words :
                        Contains(lowered, word)}
    IN  IF hits = {} THEN NoCluster
        ELSE special_patterns[CHOOSE k \in hits : \A j \in hits : k <= j].name

\* the names of the clusters that hold a record of the phrase
ClustersOf(phrase) ==
    {cl.semantic_clusters[k].name :
        k \in {j \in 1..Len(cl.semantic_clusters) :
                  \E i \in 1..Len(cl.semantic_clusters[j].members) :
                      cl.semantic_clusters[j].members[i].phrase = phrase}}

\* C16: a clustered phrase with a trigger of some special pattern in its
\* lower-cased text is in the cluster labelled by the first such pattern in
\* table order, whatever clusters existed when it came; 'remont kvartiry
\* pod klyuch' and 'remont pod klyuch nedorogo' are both in the cluster
\* 'pod klyuch' for every assignment of frequencies.
C16_SpecialPatternsFirst ==
    /\ \A k \in 1..Len(cl.filtered) :
           (k <= cl.done /\ FirstLabel(cl.filtered[k].phrase) # NoCluster)
               => ClustersOf(cl.filtered[k].phrase)
                      = {FirstLabel(cl.filtered[k].phrase)}
    /\ \A k \in 1..Len(cl.filtered) :
           (k <= cl.done /\ cl.filtered[k].phrase
                                \in {P_kvartiry_pod_kluch, P_pod_kluch_nedorogo})
               => ClustersOf(cl.filtered[k].phrase) = {special_patterns[1].name}

\* C16 witness: 'remont vannoy komnaty' founded a cluster, and then 'remont
\* vannoy komnaty cena', which shares three words with it, went to the
\* cluster of the pattern it triggers.
C16_Witness ==
    /\ cl.status = "done"
    /\ Len(cl.filtered) = 2
    /\ cl.filtered[1].phrase = P_vannoy_komnaty
    /\ cl.filtered[2].phrase = P_vannoy_komnaty_cena
    /\ Len(cl.semantic_clusters) = 2
    /\ cl.semantic_clusters[2].name = special_patterns[2].name
    /\ cl.semantic_clusters[2].members = <<cl.filtered[2]>>

\* C17: two runs of cluster_phrases on the same phrase list and the same
\* min_frequency end with the same clusters under the same names, whatever
\* the order in which each run iterates the significant-word sets.
C17_Deterministic ==
    cl.status = "done" => cl.rerun_clusters = cl.semantic_clusters

(***************************************************************************)
(* Timeouts of fetch_top_requests, checked under SpecFetch.                *)
(***************************************************************************)
Timeouts == {"connect_timeout", "read_timeout"}

\* C24: an attempt that times out, while connecting or while reading the
\* response, is handled like a transport failure: if attempts remain the
\* invocation sleeps 5*attempt seconds and goes on to the next attempt, and
\* it returns None only after max_retries attempts.
C24_TimeoutsRetried ==
    \A k \in 1..Len(f.log) :
        f.log[k] \in Timeouts =>
            IF k < f.max_retries
                THEN /\ Len(f.sleeps) >= k
                     /\ f.sleeps[k] = 5 * k
                     /\ \/ Len(f.log) > k
                        \/ f.status = "running" /\ f.attempt = k + 1
                ELSE /\ f.status = "returned"
                     /\ f.result = None
                     /\ Len(f.sleeps) = k - 1

(***************************************************************************)
(* The pairing of queries and results, checked under Spec.                 *)
(***************************************************************************)
\* the number of results that are 'no data': None, or without topRequests
NoDataCount(results) ==
    Cardinality({k \in 1..Len(results) : ~HasTop(results[k])})

\* C26: between two fetches and at the reporting step the query list and
\* the result list have the same length; the i-th result is the outcome of
\* the fetch of the i-th query (the fetch in flight is the one of the query
\* at the place its result will take); a skipped candidate adds to neither
\* list; the report has one section per query and its failed count is the
\* number of 'no data' results.
C26_QueriesPairedWithResults ==
    /\ (pc \in {"L1", "L2"} /\ all_results # <<>>)
           => Len(all_queries) = Len(all_results)
    /\ pc \in {"L1_fetch", "L2_fetch"}
           => /\ Len(all_queries) > Len(all_results)
              /\ f.phrase = all_queries[Len(all_results) + 1]
    /\ pc = "done"
           => /\ Len(all_queries) = Len(all_results)
              /\ output.written => Len(output.tables) = Len(all_queries)
              /\ output.failed = NoDataCount(all_results)


(***************************************************************************)
(* src/planner.py: generate_article_title, with capitalize_phrase and      *)
(* decline_word_prepositional.  A digit of a title is written as the digit *)
(* followed by an apostrophe, like a Latin letter.                         *)
(***************************************************************************)
\* 'price'
Category_price ==
    <<"p'", "r'", "i'", "c'", "e'">>
\* 'informational'
Category_informational ==
    <<"i'", "n'", "f'", "o'", "r'", "m'", "a'", "t'", "i'", "o'", "n'",
    "a'", "l'">>
\* 'comparison'
Category_comparison ==
    <<"c'", "o'", "m'", "p'", "a'", "r'", "i'", "s'", "o'", "n'">>

\* the fixed texts of generate_article_title: 'spb' of has_spb, the
\* prefixes tested by startswith, and the texts of the templates
Literals ==
    [ \* 'spb'
      spb |->
          <<"s", "p", "b">>,
      \* 'skol'ko stoit'
      skolko_stoit |->
          <<"s", "k", "o", "l", "q", "k", "o", " ", "s", "t", "o", "i",
          "t">>,
      \* 'stoimost''
      stoimost |->
          <<"s", "t", "o", "i", "m", "o", "s", "t", "q">>,
      \* ': ceny 2025, etapy rabot'
      ceny_etapy |->
          <<":", " ", "c", "e", "n", "7", " ", "2'", "0'", "2'", "5'", ",",
          " ", "3", "t", "a", "p", "7", " ", "r", "a", "b", "o", "t">>,
      \* ' v '
      v |->
          <<" ", "v", " ">>,
      \* ': vygodnye usloviya'
      vygodnye |->
          <<":", " ", "v", "7", "g", "o", "d", "n", "7", "e", " ", "u", "s",
          "l", "o", "v", "i", "9">>,
      \* ': professional'noe kachestvo'
      kachestvo |->
          <<":", " ", "p", "r", "o", "f", "e", "s", "s", "i", "o", "n", "a",
          "l", "q", "n", "o", "e", " ", "k", "a", "4", "e", "s", "t", "v",
          "o">>,
      \* 'skol'ko stoit '
      Skolko_stoit |->
          <<"S", "k", "o", "l", "q", "k", "o", " ", "s", "t", "o", "i", "t",
          " ">>,
      \* ': aktual'nye ceny 2025'
      aktualnye |->
          <<":", " ", "a", "k", "t", "u", "a", "l", "q", "n", "7", "e", " ",
          "c", "e", "n", "7", " ", "2'", "0'", "2'", "5'">>,
      \* 'stoimost' '
      Stoimost |->
          <<"S", "t", "o", "i", "m", "o", "s", "t", "q", " ">>,
      \* ': polnoe rukovodstvo'
      rukovodstvo |->
          <<":", " ", "p", "o", "l", "n", "o", "e", " ", "r", "u", "k", "o",
          "v", "o", "d", "s", "t", "v", "o">>,
      \* 'kak vybrat': '
      Kak_vybrat |->
          <<"K", "a", "k", " ", "v", "7", "b", "r", "a", "t", "q", ":",
          " ">>,
      \* ': sovety ekspertov'
      sovety |->
          <<":", " ", "s", "o", "v", "e", "t", "7", " ", "3", "k", "s", "p",
          "e", "r", "t", "o", "v">>,
      \* ': kakoj variant vybrat''
      kakoy_variant |->
          <<":", " ", "k", "a", "k", "o", "y", " ", "v", "a", "r", "i", "a",
          "n", "t", " ", "v", "7", "b", "r", "a", "t", "q">>,
      \* ': sravnenie i otzyvy'
      sravnenie |->
          <<":", " ", "s", "r", "a", "v", "n", "e", "n", "i", "e", " ", "i",
          " ", "o", "t", "z", "7", "v", "7">>,
      \* ': vsyo chto nuzhno znat''
      vse_chto |->
          <<":", " ", "v", "s", "0", " ", "4", "t", "o", " ", "n", "u", "j",
          "n", "o", " ", "z", "n", "a", "t", "q">> ]

\* str.upper() on one character of the alphabet used here
UpperChar(c) ==
    CASE c = "a" -> "A"
      [] c = "b" -> "B"
      [] c = "d" -> "D"
      [] c = "e" -> "E"
      [] c = "g" -> "G"
      [] c = "i" -> "I"
      [] c = "k" -> "K"
      [] c = "m" -> "M"
      [] c = "n" -> "N"
      [] c = "o" -> "O"
      [] c = "p" -> "P"
      [] c = "r" -> "R"
      [] c = "s" -> "S"
      [] c = "t" -> "T"
      [] c = "u" -> "U"
      [] c = "v" -> "V"
      [] OTHER -> c

\* s.endswith(suffix) and s.startswith(prefix)
EndsWith(s, suffix) ==
    /\ Len(s) >= Len(suffix)
    /\ SubSeq(s, Len(s) - Len(suffix) + 1, Len(s)) = suffix
StartsWith(s, prefix) ==
    Len(s) >= Len(prefix) /\ SubSeq(s, 1, Len(prefix)) = prefix
\* s.endswith((a, b, ...))
EndsWithAny(s, suffixes) == \E suffix \in suffixes : EndsWith(s, suffix)

\* s[:-1]
DropLast(s) == SubSeq(s, 1, Len(s) - 1)

\* s.split('-'): empty parts are kept
RECURSIVE SplitHyphenAcc(_, _, _)
SplitHyphenAcc(s, part, acc) ==
    IF s = <<>>
        THEN Append(acc, part)
        ELSE IF Head(s) = "-"
                 THEN SplitHyphenAcc(Tail(s), <<>>, Append(acc, part))
                 ELSE SplitHyphenAcc(Tail(s), Append(part, Head(s)), acc)
SplitHyphen(s) == SplitHyphenAcc(s, <<>>, <<>>)

\* '-'.join(parts)
RECURSIVE JoinHyphen(_)
JoinHyphen(parts) ==
    IF parts = <<>> THEN <<>>
    ELSE IF Len(parts) = 1 THEN parts[1]
    ELSE parts[1] \o <<"-">> \o JoinHyphen(Tail(parts))

\* the entries of prepositional_dict for 'moskva', 'sankt-peterburg',
\* 'peterburg' and 'kazan''; no other key of the dictionary is looked up
\* by the cities used here
prepositional_dict ==
    << [word |-> <<"m", "o", "s", "k", "v", "a">>,
        form |-> <<"M", "o", "s", "k", "v", "e">>],
       [word |-> <<"s", "a", "n", "k", "t", "-", "p", "e", "t", "e", "r", "b", "u", "r", "g">>,
        form |-> <<"S", "a", "n", "k", "t", "-", "P", "e", "t", "e", "r", "b", "u", "r", "g", "e">>],
       [word |-> <<"p", "e", "t", "e", "r", "b", "u", "r", "g">>,
        form |-> <<"P", "e", "t", "e", "r", "b", "u", "r", "g", "e">>],
       [word |-> <<"k", "a", "z", "a", "n", "q">>,
        form |-> <<"K", "a", "z", "a", "n", "i">>] >>

RECURSIVE decline_word_prepositional(_)
decline_word_prepositional(word) ==
    LET word_lower == Lower(word)
        feminine ==
            {<<"v", "a">>, <<"n", "a">>, <<"k", "a">>, <<"g", "a">>, <<"h",
            "a">>, <<"4", "a">>} \cup {<<"5", "a">>, <<"r", "a">>, <<"l",
            "a">>, <<"m", "a">>, <<"p", "a">>, <<"t", "a">>, <<"d", "a">>}
        neuter ==
            {<<"v", "o">>, <<"k", "o">>, <<"n", "o">>, <<"r", "o">>, <<"l",
            "o">>, <<"t", "o">>, <<"e">>}
        found == {k \in 1..Len(prepositional_dict) :
                      prepositional_dict[k].word = word_lower}
    IN  IF found # {}
            THEN prepositional_dict[CHOOSE k \in found : TRUE].form
        ELSE IF EndsWith(word_lower, <<"b", "u", "r", "g">>)
            THEN DropLast(word) \o <<"e">>
        ELSE IF EndsWith(word_lower, <<"s", "k">>)
            THEN word \o <<"e">>
        ELSE IF EndsWith(word_lower, <<"g", "r", "a", "d">>)
            THEN word \o <<"e">>
        ELSE IF Contains(word, <<"-">>)
            THEN LET parts == SplitHyphen(word)
                     last_declined ==
                         decline_word_prepositional(parts[Len(parts)])
                 IN  JoinHyphen(Append(DropLast(parts), last_declined))
        ELSE IF EndsWithAny(word_lower, feminine)
            THEN DropLast(word) \o <<"e">>
        ELSE IF EndsWith(word_lower, <<"9">>)
            THEN DropLast(word) \o <<"e">>
        ELSE IF EndsWith(word_lower, <<"q">>)
            THEN DropLast(word) \o <<"i">>
        ELSE IF EndsWithAny(word_lower, neuter)
            THEN word
        ELSE word \o <<"e">>

capitalize_phrase(phrase) ==
    IF phrase = <<>> THEN phrase
    ELSE <<UpperChar(phrase[1])>> \o Tail(phrase)

\* city_abbr of generate_article_title: the initials of a hyphenated name
\* followed by 'b', the name itself otherwise
RECURSIVE Initials(_)
Initials(parts) ==
    IF parts = <<>> THEN <<>>
    ELSE <<UpperChar(parts[1][1])>> \o Initials(Tail(parts))
city_abbr(city) ==
    IF Contains(city, <<"-">>)
        THEN Initials(SplitHyphen(city)) \o <<"b">>
        ELSE city

\* the lists of the dictionary 'templates', by category
Templates(phrase, city) ==
    LET phrase_lower == Lower(phrase)
        city_full == city
        city_prepositional == decline_word_prepositional(city_full)
        has_city_full == Contains(phrase_lower, Lower(city_full))
        has_city_abbr == Contains(phrase_lower, Lower(city_abbr(city)))
        has_spb == Contains(phrase_lower, Literals.spb)
        cap == capitalize_phrase(phrase)
    IN  [commercial |->
            << cap \o Literals.ceny_etapy,
               IF ~has_city_full
                   THEN cap \o Literals.v \o city_prepositional \o Literals.vygodnye
                   ELSE cap \o Literals.vygodnye,
               IF ~(has_city_abbr \/ has_spb)
                   THEN cap \o <<" ">> \o city_abbr(city) \o Literals.kachestvo
                   ELSE cap \o Literals.kachestvo >>,
         price |->
            << IF ~StartsWith(phrase_lower, Literals.skolko_stoit)
                   THEN Literals.Skolko_stoit \o phrase
                   ELSE cap,
               IF ~has_city_full
                   THEN cap \o Literals.aktualnye \o Literals.v \o city_prepositional
                   ELSE cap \o Literals.aktualnye,
               IF ~StartsWith(phrase_lower, Literals.stoimost) /\ ~has_city_full
                   THEN Literals.Stoimost \o phrase \o Literals.v \o city_prepositional
                   ELSE cap >>,
         informational |->
            << IF ~has_city_full
                   THEN cap \o Literals.rukovodstvo \o Literals.v \o city_prepositional
                   ELSE cap \o Literals.rukovodstvo,
               Literals.Kak_vybrat \o phrase,
               cap \o Literals.sovety >>,
         comparison |->
            << IF ~has_city_full
                   THEN cap \o Literals.kakoy_variant \o Literals.v \o city_prepositional
                   ELSE cap \o Literals.kakoy_variant,
               cap \o Literals.sravnenie >>,
         other |->
            << IF ~has_city_full
                   THEN cap \o Literals.v \o city_prepositional
                   ELSE cap,
               cap \o Literals.vse_chto >>]

\* templates.get(category, templates['other'])
CategoryTemplates(phrase, category, city) ==
    LET templates == Templates(phrase, city)
    IN  CASE category = Category_commercial    -> templates.commercial
          [] category = Category_price         -> templates.price
          [] category = Category_informational -> templates.informational
          [] category = Category_comparison    -> templates.comparison
          [] OTHER                             -> templates.other

generate_article_title(phrase, category, city, template_index) ==
    LET category_templates == CategoryTemplates(phrase, category, city)
        template_idx == template_index % Len(category_templates)
    IN  category_templates[template_idx + 1]

\* the phrases, categories and cities generate_article_title is called on
TitlePhrases ==
    { \* 'remont kvartir'
      <<"r", "e", "m", "o", "n", "t", " ", "k", "v", "a", "r", "t", "i",
      "r">>,
      \* 'remont kvartir spb'
      <<"r", "e", "m", "o", "n", "t", " ", "k", "v", "a", "r", "t", "i",
      "r", " ", "s", "p", "b">>,
      \* 'remont sankt-peterburg'
      <<"r", "e", "m", "o", "n", "t", " ", "s", "a", "n", "k", "t", "-",
      "p", "e", "t", "e", "r", "b", "u", "r", "g">>,
      \* 'remont moskva'
      <<"r", "e", "m", "o", "n", "t", " ", "m", "o", "s", "k", "v", "a">>,
      \* 'skol'ko stoit remont'
      <<"s", "k", "o", "l", "q", "k", "o", " ", "s", "t", "o", "i", "t",
      " ", "r", "e", "m", "o", "n", "t">>,
      \* 'stoimost' remonta spb'
      <<"s", "t", "o", "i", "m", "o", "s", "t", "q", " ", "r", "e", "m",
      "o", "n", "t", "a", " ", "s", "p", "b">> }
TitleCategories ==
    {Category_commercial, Category_price, Category_informational,
     Category_comparison, Category_other, Category_local}
TitleCities ==
    { \* 'sankt-peterburg'
      <<"S", "a", "n", "k", "t", "-", "P", "e", "t", "e", "r", "b", "u",
      "r", "g">>,
      \* 'gatchina'
      <<"G", "a", "t", "4", "i", "n", "a">>,
      \* 'ust'-kut'
      <<"U", "s", "t", "q", "-", "K", "u", "t">>,
      City_Moskva }

InitTitle ==
    /\ MainAtRest
    /\ f = IdleFrame
    /\ dedup = IdleDedup
    /\ cls = IdleClassify
    /\ cl = IdleCluster
    /\ ttl = IdleTitle

\* generate_article_title(phrase, category, config, template_index) is
\* entered; city is config['business_info']['city']
TitleCall ==
    /\ ttl.status = "idle"
    /\ \E phrase \in TitlePhrases, category \in TitleCategories,
          city \in TitleCities, template_index \in 0..MaxTemplateIndex :
           ttl' = [IdleTitle EXCEPT !.status = "called",
                                    !.phrase = phrase,
                                    !.category = category,
                                    !.city = city,
                                    !.template_index = template_index]
    /\ UNCHANGED <<pc, mainVars, netCalls, f, timeline, dedup, cls, cl>>

\* the title is built and returned
TitleReturn ==
    /\ ttl.status = "called"
    /\ ttl' = [ttl EXCEPT !.status = "returned",
                          !.title = generate_article_title(
                              ttl.phrase, ttl.category, ttl.city,
                              ttl.template_index)]
    /\ UNCHANGED <<pc, mainVars, netCalls, f, timeline, dedup, cls, cl>>

NextTitle == TitleCall \/ TitleReturn
SpecTitle == InitTitle /\ [][NextTitle]_vars


\* the number of places of s where sub occurs
CountOf(s, sub) ==
    Cardinality({k \in 0..(Len(s) - Len(sub)) :
                     SubSeq(s, k + 1, k + Len(sub)) = sub})
\* the forms a title can carry the city in
CityForms(city) ==
    {city, decline_word_prepositional(city), city_abbr(city)}
\* the phrase names the city, in full or by its abbreviation
PhraseHasCity(phrase, city) ==
    \/ Contains(Lower(phrase), Lower(city))
    \/ Contains(Lower(phrase), Lower(city_abbr(city)))

\* C25: for every category and every template index, a phrase that
\* already contains the city, by its full name or by its abbreviation,
\* gets a title into which no form of the city (full name, prepositional
\* form, abbreviation) is inserted: the title holds each form exactly as
\* often as the phrase does.
C25_NoCityInserted ==
    (ttl.status = "returned" /\ PhraseHasCity(ttl.phrase, ttl.city)) =>
        \A form \in CityForms(ttl.city) :
            CountOf(Lower(ttl.title), Lower(form))
                = CountOf(Lower(ttl.phrase), Lower(form))


(***************************************************************************)
(* cluster_phrases run on phrases that meet by word overlap: phrases that  *)
(* share two words with the founding phrases of two clusters, three with   *)
(* one and two with another, and one word only; and on phrases without     *)
(* significant words, one of them longer than the fallback name.           *)
(***************************************************************************)
OverlapPhrases ==
    { P_vannoy_komnaty, P_vannoy_komnaty_cena,
      \* 'dizajn vannoj kuhni'
      <<"d", "i", "z", "a", "y", "n", " ", "v", "a", "n", "n", "o", "y",
      " ", "k", "u", "h", "n", "i">>,
      \* 'remont vannoj kuhni'
      <<"r", "e", "m", "o", "n", "t", " ", "v", "a", "n", "n", "o", "y",
      " ", "k", "u", "h", "n", "i">>,
      \* 'remont dizajn vannoj kuhni'
      <<"r", "e", "m", "o", "n", "t", " ", "d", "i", "z", "a", "y", "n",
      " ", "v", "a", "n", "n", "o", "y", " ", "k", "u", "h", "n", "i">>,
      \* 'remont'
      <<"r", "e", "m", "o", "n", "t">>,
      \* 'remont spb'
      <<"r", "e", "m", "o", "n", "t", " ", "s", "p", "b">>,
      \* 'v na i s dlya po ot do iz k o v na i s'
      <<"v", " ", "n", "a", " ", "i", " ", "s", " ", "d", "l", "9", " ",
      "p", "o", " ", "o", "t", " ", "d", "o", " ", "i", "z", " ", "k", " ",
      "o", " ", "v", " ", "n", "a", " ", "i", " ", "s">>,
      P_v_spb }

\* the lists of up to MaxPhrases records of different phrases of
\* OverlapPhrases, as ClusterInputs; the records have one frequency, so
\* that the loop takes them in the order of the list, which is any order
OverlapInputs ==
    LET records == {[phrase |-> phrase, category |-> Category_other,
                     frequency |-> DefaultMinFrequency] :
                        phrase \in OverlapPhrases}
        lists == UNION {[1..n -> records] : n \in 0..MaxPhrases}
    IN  {[k \in 1..Len(t) |->
             [phrase |-> t[k].phrase, category |-> t[k].category,
              frequency |-> t[k].frequency, pos |-> k]] :
         t \in {u \in lists :
                   \A i, j \in 1..Len(u) : i # j => u[i].phrase # u[j].phrase}}

\* cluster_phrases(phrases, config) up to the loop, without a configured
\* threshold
OverlapCall ==
    /\ cl.status = "idle"
    /\ \E phrases \in OverlapInputs :
           cl' = [IdleCluster EXCEPT
                     !.status = "clustering",
                     !.phrases = phrases,
                     !.min_freq = DefaultMinFrequency,
                     !.filtered = SortByFrequencyDesc(
                         FilterMinFrequency(phrases, DefaultMinFrequency))]
    /\ UNCHANGED <<pc, mainVars, netCalls, f, timeline, dedup, cls, ttl>>

NextOverlap ==
    \/ OverlapCall
    \/ ClusterStep
    \/ ClusterReturn

SpecOverlap == InitCluster /\ [][NextOverlap]_vars


(***************************************************************************)
(* The word-overlap rule of find_semantic_cluster, checked under           *)
(* SpecOverlap on the clusters the loop has built.  Before the final sort  *)
(* the members of a cluster are in the order in which they were added, so  *)
(* its first member is the phrase that founded it.                         *)
(***************************************************************************)
\* the place in filtered of a record
FilteredIndex(rec) == CHOOSE k \in 1..Len(cl.filtered) : cl.filtered[k] = rec
\* the record that founded cluster j
Founder(j) == cl.semantic_clusters[j].members[1]
\* the clusters that existed when filtered[k] was taken
ExistedBefore(k) ==
    {j \in 1..Len(cl.semantic_clusters) : FilteredIndex(Founder(j)) < k}
\* the number of significant words filtered[k] shares with the founding
\* phrase of cluster j
Overlap(k, j) ==
    Cardinality(extract_root_words(cl.filtered[k].phrase)
                    \cap extract_root_words(Founder(j).phrase))
\* the cluster filtered[k] was added to
ClusterIndexOf(k) ==
    CHOOSE j \in 1..Len(cl.semantic_clusters) :
        \E i \in 1..Len(cl.semantic_clusters[j].members) :
            cl.semantic_clusters[j].members[i] = cl.filtered[k]
\* the clusters of largest overlap with filtered[k], if that is 2 or more
LargestOverlap(k) ==
    {j \in ExistedBefore(k) :
        /\ Overlap(k, j) >= 2
        /\ \A i \in ExistedBefore(k) : Overlap(k, i) <= Overlap(k, j)}
\* the one of them that was created first
FirstCreated(js) == CHOOSE j \in js : \A i \in js : j <= i

\* C21 as stated: a phrase that no special pattern matches goes to the
\* existing cluster whose founding phrase shares the most significant
\* words with it, if they share 2 or more, and among clusters of equal
\* largest overlap to the one created first; if no cluster reaches 2, a new
\* cluster is created, of which the phrase is the founding member.
C21_LargestOverlapOrNew ==
    \A k \in 1..cl.done :
        FirstLabel(cl.filtered[k].phrase) = NoCluster =>
            IF LargestOverlap(k) # {}
                THEN ClusterIndexOf(k) = FirstCreated(LargestOverlap(k))
                ELSE Founder(ClusterIndexOf(k)) = cl.filtered[k]

\* What holds of the rule: as above, but if no cluster reaches 2 the phrase
\* founds a new cluster only if no existing cluster bears the name derived
\* from the phrase; if one does, the phrase is added to that cluster.
LargestOverlapElseNamed ==
    \A k \in 1..cl.done :
        FirstLabel(cl.filtered[k].phrase) = NoCluster =>
            IF LargestOverlap(k) # {}
                THEN ClusterIndexOf(k) = FirstCreated(LargestOverlap(k))
                ELSE LET j == ClusterIndexOf(k)
                     IN  \/ Founder(j) = cl.filtered[k]
                         \/ /\ j \in ExistedBefore(k)
                            /\ cl.semantic_clusters[j].name
                                   \in NewClusterNames(cl.filtered[k].phrase)



(***************************************************************************)
(* The names of the semantic clusters, checked under SpecOverlap.          *)
(***************************************************************************)
PatternLabels == {special_patterns[k].name : k \in 1..Len(special_patterns)}
\* the names derived from a phrase: its two longest significant words, the
\* longer one first, with a space between them; its only significant word;
\* or its first 30 characters if it has no significant word
DerivedNames(phrase) ==
    LET words == extract_root_words(phrase)
        longest == {q \in words \X words :
                       /\ q[1] # q[2]
                       /\ Len(q[1]) >= Len(q[2])
                       /\ \A c \in words \ {q[1], q[2]} : Len(q[2]) >= Len(c)}
    IN  IF words = {}
            THEN {SubSeq(phrase, 1, IF Len(phrase) < 30 THEN Len(phrase) ELSE 30)}
        ELSE IF Cardinality(words) = 1
            THEN words
        ELSE {q[1] \o <<" ">> \o q[2] : q \in longest}

\* C22: at every step and in the final result, the name of every semantic
\* cluster is a special-pattern label or a name derived from its first
\* member: that phrase's two longest significant words in descending
\* length joined by one space (its only significant word if it has one),
\* or the first 30 characters of the phrase if it has no significant word.
C22_NameFromFounder ==
    \A j \in 1..Len(cl.semantic_clusters) :
        LET cluster == cl.semantic_clusters[j]
        IN  \/ cluster.name \in PatternLabels
            \/ cluster.name \in DerivedNames(cluster.members[1].phrase)

\* a finished run with a cluster named by a pattern, one named by two
\* words of its founding phrase, and one named by the first 30 characters
\* of a longer phrase
C22_Witness ==
    /\ cl.status = "done"
    /\ \E i, j, k \in 1..Len(cl.semantic_clusters) :
           /\ cl.semantic_clusters[i].name \in PatternLabels
           /\ Cardinality(extract_root_words(
                  cl.semantic_clusters[j].members[1].phrase)) = 3
           /\ cl.semantic_clusters[j].name \notin PatternLabels
           /\ Len(cl.semantic_clusters[k].name) = 30
           /\ Len(cl.semantic_clusters[k].members[1].phrase) > 30


(***************************************************************************)
(* The order of the members of a cluster, checked under SpecCluster.       *)
(***************************************************************************)
\* C23: at every step of a clustering run and in the final result, the
\* members of each semantic cluster are in non-increasing frequency order,
\* so that the first member is a highest-frequency member of the cluster;
\* and the first member is the member the loop took first, the founding
\* phrase, also after the final sort.
C23_MembersByFrequency ==
    \A j \in 1..Len(cl.semantic_clusters) :
        LET members == cl.semantic_clusters[j].members
        IN  /\ \A a, b \in 1..Len(members) :
                   a < b => members[a].frequency >= members[b].frequency
            /\ \A b \in 1..Len(members) :
                   /\ members[1].frequency >= members[b].frequency
                   /\ FilteredIndex(members[1]) <= FilteredIndex(members[b])

\* a finished run with a cluster of three members: the one of lower
\* frequency came first in the input and is last, the two of equal higher
\* frequency are in the order of the input
C23_Witness ==
    /\ cl.status = "done"
    /\ \E j \in 1..Len(cl.semantic_clusters) :
           LET members == cl.semantic_clusters[j].members
           IN  /\ Len(members) = 3
               /\ members[1].frequency = members[2].frequency
               /\ members[2].frequency > members[3].frequency
               /\ members[3].pos = 1
               /\ members[1].pos = 2
               /\ members[2].pos = 3

====
